---- MODULE Spec2Model ----
(***************************************************************************)
(* Model of sensevoice_cpp's AudioRecorder (src/src/audio_recorder.cpp)    *)
(* and VADDetector (src/src/vad_detector.cpp): initialize() and cleanup(), *)
(* the capture state machine run by the PortAudio callback, the blocking   *)
(* recordAudio(), the non-blocking startRecording / stopRecording /        *)
(* getLastRecording API with its background recording thread, and the      *)
(* public operations of the detector.                                      *)
(*                                                                         *)
(* Neither recordAudio's state reset nor the client's calls take           *)
(* buffer_mutex_, which processAudioFrame holds: the reset is followed     *)
(* statement by statement, and processAudioFrame from one access of the    *)
(* shared state to the next, so that each comes in between the other's.    *)
(* A call with undefined behaviour (a data race, an access outside a       *)
(* vector) ends the run in one of its outcomes (fault).                    *)
(*                                                                         *)
(* Threads of the model:                                                   *)
(*   "ctl"  the control thread, which calls the public API;                *)
(*   "rec"  the background thread spawned by startRecording;               *)
(*   the audio-callback thread of the driver (cbPc, pf);                   *)
(*   a second client thread that calls getLastRecording (getPc).           *)
(*                                                                         *)
(* Time is the steady clock, counted in seconds: every reading is at least *)
(* the one before. With the energy VAD a sample is the number of the       *)
(* callback that delivered it; with the neural VAD it is a signal level.   *)
(* A VAD probability is counted in tenths.                                 *)
(***************************************************************************)
EXTENDS Integers, Sequences, FiniteSets, TLC

\* ---------------------------------------------------------------- bounds
MaxTime == 6
MaxFrames == 2
MaxCalls == 3
FramesPerBuffer == 1

\* Sizes of the neural VAD, scaled down: the accumulation window (512 samples in
\* the code), the recurrent state (2*1*128), the context (64), the smoothing FIFO
\* (10); and the frames delivered to a recorder that uses it.
VAD_WINDOW_SIZE == 2
HiddenSize == 2
ContextSize == 1
HistorySize == 2
MaxVadFrames == 5

\* The names a detector holds of the inputs, and of the outputs, of its network:
\* every initialize() adds to them, cleanup() empties them.
MaxNames == 6

\* The names a loop of initializeSession has pushed when the description of an
\* input or output throws: the iterations at which the throw is followed.
MaxPushes == 1

\* Sizes of the signal front end, scaled down: the frame length and shift of the
\* small configuration (the default one is 400 and 160), and the longest waveform.
FrameLength == 4
FrameShift == 2
MaxWave == 6

\* Inputs of the other functions: the frames and the dimension given to the LFR
\* stacking, the timesteps and classes of a logits matrix, and the filters and FFT
\* bins of the mel filterbank (80 and 257 in the default configuration).
MaxLfrFrames == 13
MaxLfrDim == 2
MaxSteps == 3
VocabSize == 3
NMels == 2
FftBins == 4

\* The pre-speech ring by itself: the channel counts and the callbacks of a session.
MaxChannels == 2
MaxCallbacks == 13

\* ------------------------------------------------------ program constants
LfrM == 7
LfrN == 6
BlankId == 0
DefaultFrameLength == 400
DefaultFrameShift == 160
DefaultMels == 80
DefaultFft == 512
FrontendSampleRate == 16000
Preemphasis == 97
SampleRate == 16000
Channels == 1
RingFrames == 10
SilenceDuration == 1
MaxRecordTime == 5
TriggerThreshold == 6

\* audio_processor.hpp:15  Config::n_fft of the small configuration: a size whose
\* transform has rational coefficients, and not below the small frame length (as
\* 512 is not below 400).
NFft == 4

\* audio_recorder.hpp:31  Config::vad_type: its default
DefaultVadType == "energy"

\* VAD probabilities a frame can have (tenths): none, the float nearest to the
\* threshold, above it.
Probs == {0, 6, 7}

\* The readings of the steady clock that are followed: the start, silence_duration
\* later (not yet a timeout), one more (a timeout), and MaxTime, which is more than
\* max_record_time after the start.
Instants == {0, SilenceDuration, SilenceDuration + 1, MaxTime}

Threads == {"ctl", "rec"}

VARIABLES
    stream_,               \* PaStream* is non-null
    paState,               \* the driver's stream: "stopped", "active", "finished"
    is_recording_, speech_detected_, should_stop_,
    audio_buffer_, pre_speech_buffer_,
    last_speech_time_, recording_start_time_,
    last_recording_,
    recording_thread_,     \* std::thread: "empty", "running", "finished" (joinable)
    pc,                    \* position of "ctl" and "rec"
    result,                \* recordAudio's return value, per calling thread
    cbPc,                  \* audio callback of stream_: "idle", "frame" (inside
                           \* processAudioFrame), or "ret" before its return statement
    pf,                    \* the processAudioFrame call in progress: the statement it
                           \* is before and its locals, see NoFrame
    getPc, getResult,      \* the getLastRecording caller
    clock,                 \* the latest reading of steady_clock::now()
    frameNo,               \* callbacks with input delivered so far
    calls,                 \* API calls the control thread has made
    session,               \* history: number of state resets (session starts)
    run,                   \* history: number of successful Pa_StartStream
    spawned,               \* history: background threads spawned by startRecording
    published,             \* history: stores into last_recording_
    getIssued,             \* history: value of spawned when getLastRecording was called
    hist,                  \* history record of the current session, see HistInit
    vad_type,              \* Config::vad_type
    startRead,             \* per thread: the clock reading of line 187, until stored
    paInits,               \* PortAudio's count of Pa_Initialize less Pa_Terminate
    leaked,                \* active streams whose handle initialize() has overwritten:
                           \* how many await a callback, are inside processAudioFrame,
                           \* are at the callback's return
    fault                  \* "none", or the outcome of undefined behaviour that
                           \* ended the run

\* The neural VAD (src/src/vad_detector.cpp and AudioRecorder::computeSileroVAD).
VARIABLES
    vad_detector_,         \* AudioRecorder::vad_detector_ is non-null
    vad_session_,          \* VADDetector::session_ is non-null
    input_names_str_,      \* the input names collected: which input each names
    input_names_,          \* the pointers to them handed to the engine, likewise
    output_names_str_,     \* the output names collected: which output each names
    output_names_,         \* the pointers to them handed to the engine, likewise
    state_h_, state_c_,    \* recurrent state of the network
    context_,              \* the last context_size samples of the previous input
    prob_history_,         \* the smoothing FIFO
    vad_buffer_,           \* AudioRecorder::vad_buffer_, the accumulation buffer
    vadOut,                \* history: what the latest computeSileroVAD call did
    vadShadow              \* history: a detector constructed afresh for this session

\* The pure functions of the signal front end and the decoder: the call under
\* study and its outcome.
VARIABLES fnInput, fnOutput

\* The detector's vectors; what a computeSileroVAD call can change; what the set-up
\* of the detector changes.
detVars == <<state_h_, state_c_, context_, prob_history_>>
vadRunVars == <<detVars, vad_buffer_, vadOut, vadShadow>>
nameVars == <<input_names_str_, input_names_, output_names_str_, output_names_>>
vadSetupVars == <<vad_detector_, vad_session_, nameVars>>
vadVars == <<vadSetupVars, vadRunVars>>
fnVars == <<fnInput, fnOutput>>

\* What most of the AudioRecorder's operations leave alone.
auxVars == <<vadVars, fnVars>>
sysVars == <<vad_type, startRead, paInits>>
cbVars == <<cbPc, pf, leaked>>

recorderVars == <<stream_, paState, is_recording_, speech_detected_, should_stop_,
          audio_buffer_, pre_speech_buffer_, last_speech_time_,
          recording_start_time_, last_recording_, recording_thread_, pc, result,
          cbVars, getPc, getResult, clock, frameNo, calls, session, run,
          spawned, published, getIssued, hist, sysVars>>

vars == <<recorderVars, fault, auxVars>>

\* Groups of variables, for UNCHANGED.
flagVars == <<speech_detected_, should_stop_>>
bufVars == <<audio_buffer_, pre_speech_buffer_, last_speech_time_, recording_start_time_>>
getVars == <<getPc, getResult, getIssued>>
envVars == <<clock, frameNo>>

\* What no statement of processAudioFrame touches, the threads' positions apart.
apiVars == <<stream_, paState, is_recording_, last_recording_, recording_thread_,
             result, getVars, calls, session, run, spawned, published, sysVars>>

\* History of the current session: the time of the latest frame above the threshold
\* (-1: none), whether every frame was above it, which statement set the stop flag
\* ("silence", "max", "external") and in which stream run, the size of the
\* pre-speech ring when the first frame above the threshold arrived (-1: none yet),
\* the number of frames delivered from that frame on no later than silence_duration
\* after the latest frame above the threshold, and the number of frames the driver
\* had delivered when the session was reset.
HistInit ==
    [lastSpeechFrame |-> -1, allSpeech |-> TRUE,
     stopCause |-> "none", stopRun |-> 0, ringAtTrigger |-> -1, windowFrames |-> 0,
     framesBefore |-> 0]

\* ------------------------------------------------------- pure helpers

\* audio_recorder.cpp:113  one delivered frame holds frame_count * channels samples
Frame(n) == [i \in 1..(FramesPerBuffer * Channels) |-> n]

\* audio_recorder.cpp:116-120  pre-speech ring: drop frames_per_buffer samples once
\* more than 10 * frames_per_buffer are held, then append the frame
PushRing(ring, frame) ==
    LET kept == IF Len(ring) > FramesPerBuffer * RingFrames
                THEN SubSeq(ring, FramesPerBuffer + 1, Len(ring))
                ELSE ring
    IN  kept \o frame

RECURSIVE Pow2(_)
Pow2(n) == IF n = 0 THEN 1 ELSE 2 * Pow2(n - 1)

\* ---- single precision
\* A float is m * 2^e with 2^23 <= m < 2^24, or zero.
FloatZero == [m |-> 0, e |-> 0]

\* The float nearest to num / den * 2^e (num >= 0, den > 0), a tie going to the
\* even mantissa: the rounding of every float operation and conversion.
RECURSIVE RoundToFloat(_, _, _)
RoundToFloat(num, den, e) ==
    IF num = 0 THEN FloatZero
    ELSE IF num \div den >= 16777216 THEN RoundToFloat(num, 2 * den, e + 1)
    ELSE IF num \div den < 8388608 THEN RoundToFloat(2 * num, den, e - 1)
    ELSE LET q == num \div den
             r == num % den
         IN  IF 2 * r < den \/ (2 * r = den /\ q % 2 = 0) THEN [m |-> q, e |-> e]
             ELSE IF q + 1 = 16777216 THEN [m |-> 8388608, e |-> e + 1]
             ELSE [m |-> q + 1, e |-> e]

\* The floats that stand for the probabilities given in tenths: the nearest ones.
TenthsFloats == [tenths \in 0..10 |-> RoundToFloat(tenths, 10, 0)]
FloatOfTenths(tenths) == TenthsFloats[tenths]

\* a + b in float
FloatAdd(a, b) ==
    IF a.m = 0 THEN b
    ELSE IF b.m = 0 THEN a
    ELSE LET e == IF a.e < b.e THEN a.e ELSE b.e
         IN  RoundToFloat(a.m * Pow2(a.e - e) + b.m * Pow2(b.e - e), 1, e)

\* a / n in float, for a count n >= 1 (as a float it is n itself)
FloatDiv(a, n) == RoundToFloat(a.m, n, a.e)

\* audio_recorder.cpp:128, 132, 137; audio_recorder.hpp:29  probability >
\* threshold: the float is promoted and compared with a double, the double nearest
\* to threshold / 10. For a threshold of 1 to 9 tenths no float lies between the
\* two, and none equals either, so the comparison is that of the float with
\* threshold / 10 itself: the float nearest to 0.6 is 10066330 / 2^24, above 0.6.
FloatExceeds(f, threshold) ==
    IF f.m = 0 \/ f.e <= -28 THEN FALSE
    ELSE IF f.e >= -20 THEN TRUE
    ELSE 10 * f.m > threshold * Pow2(0 - f.e)

\* audio_recorder.cpp:128  is_speech = energy_prob > trigger_threshold, for an
\* energy probability given in tenths
IsSpeech(prob) == FloatExceeds(FloatOfTenths(prob), TriggerThreshold)

\* audio_recorder.cpp:132  is_speech = silero_prob > trigger_threshold, for the
\* float that detectVAD returned
IsSpeechSilero(silero_prob) == FloatExceeds(silero_prob, TriggerThreshold)

\* audio_recorder.cpp:165
SilenceTimeout(now, last) == now - last > SilenceDuration

\* audio_recorder.cpp:168
MaxTimeReached(now, start) == now - start > MaxRecordTime

\* audio_recorder.cpp:149-155  the buffer after the branch of a frame with speech:
\* seeded with the ring when speech was not detected before
SeedBuffer(buffer, ring, detected) ==
    IF ~detected THEN buffer \o ring ELSE buffer

\* audio_recorder.cpp:158-160  with speech detected the frame joins the buffer
AppendFrame(buffer, frame, detected) ==
    IF detected THEN buffer \o frame ELSE buffer

\* audio_recorder.cpp:162-171  should_stop_ after the stop conditions
NextShouldStop(stop, now, last, start) ==
    IF SilenceTimeout(now, last) \/ MaxTimeReached(now, start) THEN TRUE ELSE stop

\* audio_recorder.cpp:106
CallbackResult(stop) == IF stop THEN "paComplete" ELSE "paContinue"

\* spec.md 4.3: the capture state the three atomics encode
CaptureState ==
    IF should_stop_ THEN "Stopped"
    ELSE IF speech_detected_ THEN "Recording" ELSE "Idle"

\* A thread is inside recordAudio's session: after its reset, before its return.
InSession(t) == pc[t] \in {"ra_start", "ra_wait", "ra_stop", "ra_copy"}

\* The positions of recordAudio's reset, lines 176-193: before the statement named.
ResetPcs ==
    {"ra_reset", "ra_clear_buffer", "ra_clear_ring", "ra_clear_vad", "ra_clear_speech",
     "ra_clear_stop", "ra_read_clock", "ra_store_start", "ra_store_last",
     "ra_reset_detector"}

\* No stream was orphaned.
NoLeaked == [idle |-> 0, frame |-> 0, ret |-> 0]

\* audio_recorder.cpp:109-173  no callback is inside processAudioFrame (buffer_mutex_
\* is free). Otherwise pos is the statement the call is before ("ring", line 116;
\* "vad", 125; "window", 315; "detect", 325; "now", 145; "mark", 148; "trigger",
\* 149; "append", 158; "stop", 162) and frame, vad_input, is_speech and now are its
\* locals; detected, stopped and triggered are history: speech_detected_ and
\* should_stop_ when the callback began, and whether the call has set
\* speech_detected_.
NoFrame ==
    [pos |-> "none", frame |-> <<>>, vad_input |-> <<>>, is_speech |-> FALSE,
     now |-> 0, detected |-> FALSE, stopped |-> FALSE, triggered |-> FALSE]

\* audio_recorder.cpp:9-17, 23-79  the recorder after construction with the given
\* vad_type and, with opened, after an initialize() that has opened the stream
RecorderState(type, opened) ==
    /\ stream_ = opened
    /\ paState = "stopped"
    /\ is_recording_ = FALSE
    /\ speech_detected_ = FALSE
    /\ should_stop_ = FALSE
    /\ audio_buffer_ = <<>>
    /\ pre_speech_buffer_ = <<>>
    /\ last_speech_time_ = 0
    /\ recording_start_time_ = 0
    /\ last_recording_ = <<>>
    /\ recording_thread_ = "empty"
    /\ pc = [t \in Threads |-> IF t = "ctl" THEN "idle" ELSE "none"]
    /\ result = [t \in Threads |-> <<>>]
    /\ cbPc = "idle"
    /\ pf = NoFrame
    /\ getPc = "idle"
    /\ getResult = <<>>
    /\ clock = 0
    /\ frameNo = 0
    /\ calls = 0
    /\ session = 0
    /\ run = 0
    /\ spawned = 0
    /\ published = 0
    /\ getIssued = 0
    /\ hist = HistInit
    /\ vad_type = type
    /\ startRead = [t \in Threads |-> 0]
    /\ paInits = (IF opened THEN 1 ELSE 0)
    /\ leaked = NoLeaked
    /\ fault = "none"

\* audio_recorder.cpp:14-17  the recorder after construction with the given vad_type
RecorderConstructed(type) == RecorderState(type, FALSE)

\* audio_recorder.cpp:9-12  the default constructor: Config{}
RecorderInit == RecorderConstructed(DefaultVadType)

\* ============================================================ neural VAD
\* Samples a delivered chunk can hold.
VadSamples == {1, 2}

\* The chunks processAudioFrame hands to computeSileroVAD: one frame.
VadChunks == [1..(FramesPerBuffer * Channels) -> VadSamples]

RECURSIVE Sum(_)
Sum(seq) == IF seq = <<>> THEN 0 ELSE Head(seq) + Sum(Tail(seq))

RECURSIVE WeightedSum(_)
WeightedSum(seq) ==
    IF seq = <<>> THEN 0 ELSE Len(seq) * seq[Len(seq)] + WeightedSum(SubSeq(seq, 1, Len(seq) - 1))

Zeros(n) == [i \in 1..n |-> 0]

LastN(seq, n) == SubSeq(seq, Len(seq) - n + 1, Len(seq))

\* vad_detector.hpp:13  the detector's window_size; main.cpp:57 and the header
\* give it the value of VAD_WINDOW_SIZE
WindowSize == VAD_WINDOW_SIZE

\* vad_detector.cpp:169-175  the Inference Engine is outside the repository: a
\* deterministic function of the input tensors (the concatenated input and the
\* hidden state; the cell state is not among them), standing for the network.
\* The probability is in tenths.
EngineProb(x, h) == (WeightedSum(x) + Sum(h)) % 11
EngineH(x, h) == [i \in 1..Len(h) |-> (h[i] + Sum(x) + i) % 2]
EngineC(x, h) == [i \in 1..Len(h) |-> (Sum(x) + Sum(h) + i) % 2]

\* vad_detector.cpp:7-9  a constructed detector: every vector is empty
ConstructedDetector ==
    [state_h_ |-> <<>>, state_c_ |-> <<>>, context_ |-> <<>>, prob_history_ |-> <<>>]

\* Mutant of ResetDetector: the smoothing history survives the reset.
ResetDetectorKeepsHistory(det) ==
    [det EXCEPT !.state_h_ = Zeros(HiddenSize), !.state_c_ = Zeros(HiddenSize),
                !.context_ = Zeros(ContextSize)]

\* vad_detector.cpp:108-114  VADDetector::reset
ResetDetector(det) ==
    [state_h_ |-> Zeros(HiddenSize), state_c_ |-> Zeros(HiddenSize),
     context_ |-> Zeros(ContextSize), prob_history_ |-> <<>>]

\* vad_detector.cpp:128-140  the input is cut to its first window_size samples or
\* padded with zeros to window_size
PrepareInput(audio) ==
    IF Len(audio) = WindowSize THEN audio
    ELSE IF Len(audio) > WindowSize THEN SubSeq(audio, 1, WindowSize)
    ELSE audio \o Zeros(WindowSize - Len(audio))

\* Mutant of PushHistory: nothing is dropped.
PushHistoryUnbounded(history, prob) == Append(history, prob)

\* vad_detector.cpp:192-196  push the probability, drop the oldest beyond history_size
PushHistory(history, prob) ==
    LET pushed == Append(history, prob)
    IN  IF Len(pushed) > HistorySize THEN Tail(pushed) ELSE pushed

\* vad_detector.cpp:198  the mean of the history, as the fraction sum / size
Smoothed(history) == [num |-> Sum(history), den |-> Len(history)]

\* vad_detector.cpp:198  std::accumulate(begin, end, 0.0f): the entries are added
\* one by one, oldest first, each sum rounded to float
RECURSIVE Accumulate(_, _)
Accumulate(history, init) ==
    IF history = <<>> THEN init
    ELSE Accumulate(Tail(history), FloatAdd(init, FloatOfTenths(Head(history))))

\* vad_detector.cpp:198, 200  smoothed_prob, the float returned: the float sum
\* divided by the size, rounded again
SmoothedProb(history) == FloatDiv(Accumulate(history, FloatZero), Len(history))

\* A probability of exactly 0.
ZeroProb == [num |-> 0, den |-> 1]

\* vad_detector.hpp:12  the sample rate the detector tells the network
VadSampleRate == 16000

\* vad_detector.cpp:154-166  the tensors handed to the engine, in the order of
\* input_tensors: the concatenated input, state_h_ and the sample rate
InputTensors(x, det) == <<x, det.state_h_, <<VadSampleRate>>>>

\* vad_detector.cpp:48-54  the first inputs input names of the network, in its
\* order: the audio, the state, the sample rate
InputNames(inputs) == [k \in 1..inputs |-> k]

\* vad_detector.cpp:160-166  the network that detectVAD feeds: one input for each
\* tensor of input_tensors
NetworkInputs == Len(InputTensors(<<>>, [state_h_ |-> <<>>]))

\* vad_detector.cpp:63-74  the output names of a network with the given number of
\* outputs, in the network's order: the probability, the hidden state, the cell
\* state
OutputNames(outputs) == [k \in 1..outputs |-> k]

\* vad_detector.cpp:169-171  what Run returns for these tensors and these output
\* names: one tensor for each name, the probability, the new hidden state or the
\* new cell state
EngineRun(tensors, names) ==
    [k \in 1..Len(names) |->
        IF names[k] = 1 THEN <<EngineProb(tensors[1], tensors[2])>>
        ELSE IF names[k] = 2 THEN EngineH(tensors[1], tensors[2])
        ELSE EngineC(tensors[1], tensors[2])]

\* No engine call was made.
NoEngineRun == [ran |-> FALSE, failed |-> FALSE, tensors |-> <<>>, outputs |-> <<>>]

\* Mutant of Caught: the handler returns a probability of one half.
CaughtReturnsHalf(det) ==
    [det |-> det, prob |-> [num |-> 1, den |-> 2], smoothed_prob |-> FloatOfTenths(5)]

\* vad_detector.cpp:202-205  the catch clause of detectVAD: the exception ends
\* here, the detector stays as the try block left it and 0.0f is returned
Caught(det) == [det |-> det, prob |-> ZeroProb, smoothed_prob |-> FloatZero]

\* vad_detector.cpp:150  the copy of context_size samples into context_ writes
\* outside the vector when it holds fewer: on a detector that was never reset
\* (initializeSession failed after line 38 had assigned session_, so initialize
\* returned before its reset())
ContextOutside(det) == Len(det.context_) < ContextSize

\* vad_detector.cpp:174  output_tensors[0] of no output tensors: on a detector
\* whose output names were never collected (the same failure of initializeSession)
OutputOutside(names) == names = <<>>

\* vad_detector.cpp:178-190  the second and third tensors are read as states of
\* state_h_.size() floats: outside the tensor when the name at that place is not
\* the state's (the names of a second initialize() follow those of the first)
StateOutside(names) ==
    \/ Len(names) > 1 /\ names[2] # 2
    \/ Len(names) > 2 /\ names[3] # 3

\* vad_detector.cpp:57-60, 77-79  the pointers of input_names_ and output_names_
\* are c_str() of the strings of input_names_str_ and output_names_str_: a
\* push_back of a later initialize() moves the strings, and the pointers collected
\* before dangle. Every collection hands over every string, so the pointers are as
\* many as the strings only when they were collected once, after the last push.
NamesDangling(names, strs) == Len(names) # Len(strs)

\* vad_detector.cpp:170  Run reads one name for each input tensor from
\* input_names_.data(): outside the vector when it holds fewer (initializeSession
\* failed before line 57 had collected them)
InputOutside(feeds, tensors) == Len(feeds) < Len(tensors)

\* vad_detector.cpp:169-171  the engine takes each tensor for the input whose name
\* comes with it, and throws when that is not the network's input at that place
\* (a tensor of another shape or type): the names of a failed initialize() come
\* before those of the next
FeedsMismatch(feeds, tensors) ==
    SubSeq(feeds, 1, Len(tensors)) # InputNames(Len(tensors))

\* vad_detector.cpp:120-206  VADDetector::detectVAD: the detector afterwards, the
\* value returned, whether the engine was run, on which input, and what went
\* into and came out of the engine. With status "undefined" the call has undefined
\* behaviour and the other fields tell nothing.
DetectVAD(det, initialized, audio, engineOk, feeds, names) ==
    IF ~initialized
    THEN [status |-> "ok", det |-> det, prob |-> ZeroProb,
          smoothed_prob |-> FloatZero, invoked |-> FALSE,
          input |-> <<>>, engine |-> NoEngineRun]
    ELSE IF ContextOutside(det)
    THEN [status |-> "undefined", det |-> det, prob |-> ZeroProb,
          smoothed_prob |-> FloatZero, invoked |-> TRUE,
          input |-> PrepareInput(audio), engine |-> NoEngineRun]
    ELSE LET input_audio == PrepareInput(audio)
             x == det.context_ \o input_audio
             context == IF Len(x) >= ContextSize THEN LastN(x, ContextSize)
                        ELSE det.context_
             tensors == InputTensors(x, det)
             output_tensors == EngineRun(tensors, names)
             prob == output_tensors[1][1]
             history == PushHistory(det.prob_history_, prob)
             caught == Caught([det EXCEPT !.context_ = context])
         IN  IF InputOutside(feeds, tensors)
             THEN [status |-> "undefined", det |-> caught.det, prob |-> ZeroProb,
                   smoothed_prob |-> FloatZero,
                   invoked |-> TRUE, input |-> input_audio,
                   engine |-> [ran |-> TRUE, failed |-> FALSE, tensors |-> tensors,
                               outputs |-> <<>>]]
             ELSE IF ~engineOk \/ FeedsMismatch(feeds, tensors)
             THEN [status |-> "ok", det |-> caught.det, prob |-> caught.prob,
                   smoothed_prob |-> caught.smoothed_prob,
                   invoked |-> TRUE, input |-> input_audio,
                   engine |-> [ran |-> TRUE, failed |-> TRUE, tensors |-> tensors,
                               outputs |-> <<>>]]
             ELSE IF OutputOutside(names) \/ StateOutside(names)
             THEN [status |-> "undefined", det |-> caught.det, prob |-> ZeroProb,
                   smoothed_prob |-> FloatZero,
                   invoked |-> TRUE, input |-> input_audio,
                   engine |-> [ran |-> TRUE, failed |-> FALSE, tensors |-> tensors,
                               outputs |-> <<>>]]
             ELSE [status |-> "ok",
                   det |-> [state_h_ |-> IF Len(output_tensors) > 1
                                         THEN output_tensors[2]
                                         ELSE det.state_h_,
                            state_c_ |-> IF Len(output_tensors) > 2
                                         THEN output_tensors[3]
                                         ELSE det.state_c_,
                            context_ |-> context,
                            prob_history_ |-> history],
                   prob |-> Smoothed(history),
                   smoothed_prob |-> SmoothedProb(history), invoked |-> TRUE,
                   input |-> input_audio,
                   engine |-> [ran |-> TRUE, failed |-> FALSE, tensors |-> tensors,
                               outputs |-> output_tensors]]

RECURSIVE Pow2Mod(_, _)
Pow2Mod(n, m) == IF n = 0 THEN 1 % m ELSE (2 * Pow2Mod(n - 1, m)) % m

\* The exponent of a positive fraction: the e with 2^e <= num / den < 2^(e+1).
RECURSIVE Log2Floor(_, _)
Log2Floor(num, den) ==
    IF num >= 2 * den THEN 1 + Log2Floor(num, 2 * den)
    ELSE IF num < den THEN Log2Floor(2 * num, den) - 1
    ELSE 0

\* audio_recorder.cpp:297  ratio = double(sample_rate) / 16000.0 is the quotient
\* rounded to the 53 bits of a double. 16000 is 2^7 * 125, so the rounding is that
\* of sample_rate / 125: with 2^a <= sample_rate / 125 < 2^(a+1) the double is
\* (sample_rate * 2^(52-a) + err) / (125 * 2^(59-a)), where err (in -62..62) brings
\* the numerator to the nearest multiple of 125. RatioExponent is a, RatioError err.
RatioExponent(sample_rate) == Log2Floor(sample_rate, 125)

RatioError(sample_rate) ==
    LET rem == ((sample_rate % 125)
                  * Pow2Mod(52 - RatioExponent(sample_rate), 125)) % 125
    IN  IF 2 * rem < 125 THEN 0 - rem ELSE 125 - rem

\* A double product or quotient whose exact value would be the integer k > 0 is off
\* by the relative error err / (sample_rate * 2^(52-a)) of the ratio. When that
\* takes it below k, it is rounded to the double nearest to it: to k itself, or,
\* when it is more than half a spacing of the doubles below k away, to one below k.
RoundsBelow(k, err, sample_rate) ==
    LET a == RatioExponent(sample_rate)
        e == Log2Floor(k, 1)
        spacing == IF k = Pow2(e) THEN 4 ELSE 2
    IN  spacing * k * err * (IF a >= 0 THEN Pow2(a) ELSE 1)
          > sample_rate * (IF a < 0 THEN Pow2(0 - a) ELSE 1) * Pow2(e)

\* audio_recorder.cpp:298  new_size = size_t(audio_chunk.size() / ratio)
NewSize(size, sample_rate) ==
    LET k == (size * 16000) \div sample_rate
        err == RatioError(sample_rate)
    IN  IF (size * 16000) % sample_rate = 0 /\ k > 0 /\ err > 0
           /\ RoundsBelow(k, err, sample_rate)
        THEN k - 1 ELSE k

\* audio_recorder.cpp:301  src_idx = size_t(i * ratio)
SrcIdx(i, sample_rate) ==
    LET k == (i * sample_rate) \div 16000
        err == RatioError(sample_rate)
    IN  IF (i * sample_rate) % 16000 = 0 /\ k > 0 /\ err < 0
           /\ RoundsBelow(k, 0 - err, sample_rate)
        THEN k - 1 ELSE k

\* audio_recorder.cpp:286-309  bring a chunk to 16 kHz: the chunk itself at 16 kHz,
\* every third sample from 48 kHz, and from any other rate the samples at the
\* positions src_idx that lie inside the chunk
ResampleAt(chunk, sample_rate) ==
    IF sample_rate = 16000 THEN chunk
    ELSE IF sample_rate = 48000
    THEN [i \in 1..((Len(chunk) + 2) \div 3) |-> chunk[3 * (i - 1) + 1]]
    ELSE LET new_size == NewSize(Len(chunk), sample_rate)
             inside == {i \in 1..new_size : SrcIdx(i - 1, sample_rate) < Len(chunk)}
         IN  [i \in 1..Cardinality(inside) |-> chunk[SrcIdx(i - 1, sample_rate) + 1]]

\* audio_recorder.cpp:288  the chunk at the configured sample rate
Resample(chunk) == ResampleAt(chunk, SampleRate)

\* Mutant of VadInput: the oldest samples of the buffer are taken.
VadInputOldest(buffer) == SubSeq(buffer, 1, VAD_WINDOW_SIZE)

\* audio_recorder.cpp:317  the latest VAD_WINDOW_SIZE samples of the buffer
VadInput(buffer) == LastN(buffer, VAD_WINDOW_SIZE)

\* audio_recorder.cpp:320-322  a buffer of more than twice the window is cut back
\* to its latest VAD_WINDOW_SIZE samples
TrimVadBuffer(buffer) ==
    IF Len(buffer) > VAD_WINDOW_SIZE * 2 THEN LastN(buffer, VAD_WINDOW_SIZE) ELSE buffer

\* audio_recorder.cpp:278-331  AudioRecorder::computeSileroVAD on a detector and an
\* accumulation buffer, from its first statement to its return: both afterwards,
\* with what detectVAD reported
ComputeSileroVAD(det, buffer, hasDetector, initialized, chunk, engineOk, feeds, names) ==
    IF ~hasDetector
    THEN [status |-> "ok", det |-> det, buffer |-> buffer, prob |-> ZeroProb,
          smoothed_prob |-> FloatZero,
          invoked |-> FALSE, input |-> <<>>, engine |-> NoEngineRun]
    ELSE LET grown == buffer \o Resample(chunk)
         IN  IF Len(grown) >= VAD_WINDOW_SIZE
             THEN LET r == DetectVAD(det, initialized, VadInput(grown), engineOk,
                                     feeds, names)
                  IN  [status |-> r.status, det |-> r.det,
                       buffer |-> TrimVadBuffer(grown),
                       prob |-> r.prob, smoothed_prob |-> r.smoothed_prob,
                       invoked |-> r.invoked, input |-> r.input,
                       engine |-> r.engine]
             ELSE [status |-> "ok", det |-> det, buffer |-> grown, prob |-> ZeroProb,
                   smoothed_prob |-> FloatZero,
                   invoked |-> FALSE, input |-> <<>>, engine |-> NoEngineRun]

\* The detector's vectors as one record.
Detector ==
    [state_h_ |-> state_h_, state_c_ |-> state_c_, context_ |-> context_,
     prob_history_ |-> prob_history_]

\* History of the session's computeSileroVAD calls: of the latest call the value
\* returned, whether the engine was run and on which input, what went into and
\* came out of the engine, and what the shadow detector returned; of the session
\* the number of resampled samples delivered, the latest of them (VAD_WINDOW_SIZE
\* at most), whether an earlier engine call failed, and the raw probabilities of
\* the successful inferences since the reset, oldest first.
NoVadOut ==
    [called |-> FALSE, prob |-> ZeroProb, invoked |-> FALSE, input |-> <<>>,
     seen |-> 0, recent |-> <<>>, shadowProb |-> ZeroProb,
     engine |-> NoEngineRun, afterFailure |-> FALSE, raws |-> <<>>]

\* The latest VAD_WINDOW_SIZE samples of a session after one more chunk.
Recent(recent, samples) ==
    LET all == recent \o samples
    IN  IF Len(all) > VAD_WINDOW_SIZE THEN LastN(all, VAD_WINDOW_SIZE) ELSE all

\* A detector constructed and reset for one session alone, with an empty buffer.
FreshShadow == [det |-> ResetDetector(ConstructedDetector), buffer |-> <<>>]

\* vad_detector.cpp:7-9, audio_recorder.cpp:9-17  the state after construction of
\* the detector and the recorder
DetectorInit ==
    /\ vad_detector_ = FALSE
    /\ vad_session_ = FALSE
    /\ input_names_str_ = <<>>
    /\ input_names_ = <<>>
    /\ output_names_str_ = <<>>
    /\ output_names_ = <<>>
    /\ state_h_ = ConstructedDetector.state_h_
    /\ state_c_ = ConstructedDetector.state_c_
    /\ context_ = ConstructedDetector.context_
    /\ prob_history_ = ConstructedDetector.prob_history_
    /\ vad_buffer_ = <<>>
    /\ vadOut = NoVadOut
    /\ vadShadow = [det |-> ConstructedDetector, buffer |-> <<>>]

\* What a call with undefined behaviour (an access outside a vector, an integer
\* division by zero, a signed overflow, a data race) can do, whatever value it
\* would return: the process is killed, or it goes on with memory it has damaged.
UndefinedOutcomes == {"crash", "corrupt"}

\* audio_recorder.cpp:131  the computeSileroVAD call of the frame in progress, from
\* its first statement to its return, on the shadow of the session
ShadowCall(engineOk) ==
    ComputeSileroVAD(vadShadow.det, vadShadow.buffer, TRUE, vad_session_,
                     pf.frame, engineOk, input_names_, output_names_)

\* audio_recorder.cpp:326, 330  a computeSileroVAD call returns: the history of
\* the session after it, from what detectVAD reported (r) and from the same call
\* on the shadow (sh)
SileroReturned(r, sh) ==
    /\ vadOut' = [called |-> TRUE, prob |-> r.prob, invoked |-> r.invoked,
                  input |-> r.input,
                  seen |-> vadOut.seen + Len(Resample(pf.frame)),
                  recent |-> Recent(vadOut.recent, Resample(pf.frame)),
                  shadowProb |-> sh.prob,
                  engine |-> r.engine,
                  afterFailure |-> vadOut.afterFailure \/ vadOut.engine.failed,
                  raws |-> IF r.engine.ran /\ ~r.engine.failed
                           THEN Append(vadOut.raws, r.engine.outputs[1][1])
                           ELSE vadOut.raws]
    /\ vadShadow' = [det |-> sh.det, buffer |-> sh.buffer]

\* audio_recorder.cpp:329-330  the value of a call that found too few samples
TooFewSamples ==
    [status |-> "ok", det |-> Detector, prob |-> ZeroProb,
     smoothed_prob |-> FloatZero, invoked |-> FALSE,
     input |-> <<>>, engine |-> NoEngineRun]

\* vad_detector.cpp:169-171  the engine is handed names that dangle, among the
\* inputs or the outputs
HandsDangling ==
    \/ NamesDangling(input_names_, input_names_str_)
    \/ NamesDangling(output_names_, output_names_str_)

\* vad_detector.cpp:169-171  how a detectVAD call that returned r can end: a call
\* with undefined behaviour ends the run in one of its outcomes; so can a call
\* that handed the engine dangling names
DetectOutcomes(r, dangling) ==
    IF r.status = "undefined" THEN UndefinedOutcomes
    ELSE IF r.engine.ran /\ dangling
    THEN UndefinedOutcomes \cup {"none"}
    ELSE {"none"}

\* audio_recorder.cpp:325-326, 132  detectVAD has returned r: the detector is as it
\* left it and the frame is speech when the probability exceeds the threshold
Detected(r, sh, outcome) ==
    IF outcome # "none"
    THEN /\ fault' = outcome
         /\ UNCHANGED <<pf, detVars, vadOut, vadShadow>>
    ELSE /\ state_h_' = r.det.state_h_
         /\ state_c_' = r.det.state_c_
         /\ context_' = r.det.context_
         /\ prob_history_' = r.det.prob_history_
         /\ pf' = [pf EXCEPT !.pos = "now", !.vad_input = <<>>,
                             !.is_speech = IsSpeechSilero(r.smoothed_prob)]
         /\ SileroReturned(r, sh)
         /\ UNCHANGED fault

\* ------------------------------------------------------------ recordAudio
\* recordAudio's reset, lines 182-193, takes no lock and is no critical section:
\* every statement is a step of its own, so that the statements of a callback of
\* a stream another session has started, and those of another thread's reset, come
\* in between.

\* audio_recorder.cpp:176-179  no stream: return {}; otherwise a session begins
RA_Reset(t) ==
    /\ fault = "none"
    /\ pc[t] = "ra_reset"
    /\ IF ~stream_
       THEN /\ result' = [result EXCEPT ![t] = <<>>]
            /\ pc' = [pc EXCEPT ![t] = "ra_ret"]
            /\ UNCHANGED session
       ELSE /\ session' = session + 1
            /\ pc' = [pc EXCEPT ![t] = "ra_clear_buffer"]
            /\ UNCHANGED result
    /\ UNCHANGED <<stream_, paState, is_recording_, flagVars, bufVars, last_recording_,
                   recording_thread_, cbVars, getVars, envVars, calls, run, spawned,
                   published, hist, sysVars, fault, auxVars>>

\* audio_recorder.cpp:182  audio_buffer_.clear()
RA_ClearBuffer(t) ==
    /\ fault = "none"
    /\ pc[t] = "ra_clear_buffer"
    /\ audio_buffer_' = <<>>
    /\ pc' = [pc EXCEPT ![t] = "ra_clear_ring"]
    /\ UNCHANGED <<stream_, paState, is_recording_, flagVars, pre_speech_buffer_,
                   last_speech_time_, recording_start_time_, last_recording_,
                   recording_thread_, result, cbVars, getVars, envVars, calls, session,
                   run, spawned, published, hist, sysVars, fault, auxVars>>

\* audio_recorder.cpp:183  pre_speech_buffer_.clear()
RA_ClearRing(t) ==
    /\ fault = "none"
    /\ pc[t] = "ra_clear_ring"
    /\ pre_speech_buffer_' = <<>>
    /\ pc' = [pc EXCEPT ![t] = "ra_clear_vad"]
    /\ UNCHANGED <<stream_, paState, is_recording_, flagVars, audio_buffer_,
                   last_speech_time_, recording_start_time_, last_recording_,
                   recording_thread_, result, cbVars, getVars, envVars, calls, session,
                   run, spawned, published, hist, sysVars, fault, auxVars>>

\* audio_recorder.cpp:184  vad_buffer_.clear()
RA_ClearVad(t) ==
    /\ fault = "none"
    /\ pc[t] = "ra_clear_vad"
    /\ vad_buffer_' = <<>>
    /\ pc' = [pc EXCEPT ![t] = "ra_clear_speech"]
    /\ UNCHANGED <<stream_, paState, is_recording_, flagVars, bufVars, last_recording_,
                   recording_thread_, result, cbVars, getVars, envVars, calls, session,
                   run, spawned, published, hist, sysVars, fault, vadSetupVars,
                   detVars, vadOut, vadShadow, fnVars>>

\* audio_recorder.cpp:185  speech_detected_.store(false)
RA_ClearSpeech(t) ==
    /\ fault = "none"
    /\ pc[t] = "ra_clear_speech"
    /\ speech_detected_' = FALSE
    /\ pc' = [pc EXCEPT ![t] = "ra_clear_stop"]
    /\ UNCHANGED <<stream_, paState, is_recording_, should_stop_, bufVars,
                   last_recording_, recording_thread_, result, cbVars, getVars, envVars,
                   calls, session, run, spawned, published, hist, sysVars, fault,
                   auxVars>>

\* audio_recorder.cpp:186  should_stop_.store(false)
RA_ClearStop(t) ==
    /\ fault = "none"
    /\ pc[t] = "ra_clear_stop"
    /\ should_stop_' = FALSE
    /\ pc' = [pc EXCEPT ![t] = "ra_read_clock"]
    /\ UNCHANGED <<stream_, paState, is_recording_, speech_detected_, bufVars,
                   last_recording_, recording_thread_, result, cbVars, getVars, envVars,
                   calls, session, run, spawned, published, hist, sysVars, fault,
                   auxVars>>

\* The readings the steady clock can give now: any from the latest one on.
Readings == {t \in Instants : t >= clock}

\* audio_recorder.cpp:165-168, 187  the code uses only differences of readings. A
\* reading of line 187 is compared with later ones alone, unless another thread is
\* inside recordAudio or a callback can run: then it is any reading; otherwise the
\* latest one stands for it, and the time that has passed is counted at the next
\* reading.
StartReadings(t) ==
    IF \/ \E u \in Threads \ {t} : pc[u] \in ResetPcs \/ InSession(u)
       \/ pf.pos # "none"
       \/ paState = "active"
       \/ leaked.idle > 0
    THEN Readings
    ELSE {clock}

\* audio_recorder.cpp:187  the right-hand side: steady_clock::now()
RA_ReadClock(t) ==
    /\ fault = "none"
    /\ pc[t] = "ra_read_clock"
    /\ \E now \in StartReadings(t) :
         /\ clock' = now
         /\ startRead' = [startRead EXCEPT ![t] = now]
    /\ pc' = [pc EXCEPT ![t] = "ra_store_start"]
    /\ UNCHANGED <<stream_, paState, is_recording_, flagVars, bufVars, last_recording_,
                   recording_thread_, result, cbVars, getVars, frameNo, calls, session,
                   run, spawned, published, hist, vad_type, paInits, fault,
                   auxVars>>

\* audio_recorder.cpp:187  the store to recording_start_time_
RA_StoreStart(t) ==
    /\ fault = "none"
    /\ pc[t] = "ra_store_start"
    /\ recording_start_time_' = startRead[t]
    /\ pc' = [pc EXCEPT ![t] = "ra_store_last"]
    /\ UNCHANGED <<stream_, paState, is_recording_, flagVars, audio_buffer_,
                   pre_speech_buffer_, last_speech_time_, last_recording_,
                   recording_thread_, result, cbVars, getVars, envVars, calls, session,
                   run, spawned, published, hist, sysVars, fault, auxVars>>

\* audio_recorder.cpp:188  last_speech_time_ = recording_start_time_: the member is
\* a plain time_point that another thread's reset may have stored to since line
\* 187, so the value copied is the one this thread stored (kept in a register) or
\* the one the member holds now
RA_StoreLast(t) ==
    /\ fault = "none"
    /\ pc[t] = "ra_store_last"
    /\ \E start \in {startRead[t], recording_start_time_} :
         last_speech_time_' = start
    /\ startRead' = [startRead EXCEPT ![t] = 0]
    /\ pc' = [pc EXCEPT ![t] = "ra_reset_detector"]
    /\ UNCHANGED <<stream_, paState, is_recording_, flagVars, audio_buffer_,
                   pre_speech_buffer_, recording_start_time_, last_recording_,
                   recording_thread_, result, cbVars, getVars, envVars, calls, session,
                   run, spawned, published, hist, vad_type, paInits, fault,
                   auxVars>>

\* audio_recorder.cpp:191-193  with a detector set, reset it. The reset is
\* complete: the history of the session and its shadow start here; a stop request
\* that arrived during the reset and still stands is part of that history.
RA_ResetDetector(t) ==
    /\ fault = "none"
    /\ pc[t] = "ra_reset_detector"
    /\ LET det == IF vad_detector_ THEN ResetDetector(Detector) ELSE Detector
       IN  /\ state_h_' = det.state_h_
           /\ state_c_' = det.state_c_
           /\ context_' = det.context_
           /\ prob_history_' = det.prob_history_
    /\ vadOut' = [NoVadOut EXCEPT !.raws = IF vad_detector_ THEN <<>> ELSE vadOut.raws]
    /\ vadShadow' = FreshShadow
    /\ hist' = [HistInit EXCEPT
                   !.framesBefore = frameNo,
                   !.stopCause = IF should_stop_ THEN hist.stopCause ELSE @,
                   !.stopRun = IF should_stop_ THEN hist.stopRun ELSE @]
    /\ pc' = [pc EXCEPT ![t] = "ra_start"]
    /\ UNCHANGED <<stream_, paState, is_recording_, flagVars, bufVars, last_recording_,
                   recording_thread_, result, cbVars, getVars, envVars, calls, session,
                   run, spawned, published, sysVars, fault, vadSetupVars,
                   vad_buffer_, fnVars>>

\* audio_recorder.cpp:195-200  Pa_StartStream: fails on a stream that is not stopped
\* (paStreamIsNotStopped) and may fail on a device error; on failure return {}
RA_Start(t) ==
    /\ fault = "none"
    /\ pc[t] = "ra_start"
    /\ \E deviceOk \in BOOLEAN :
         IF deviceOk /\ paState = "stopped"
         THEN /\ paState' = "active"
              /\ run' = run + 1
              /\ pc' = [pc EXCEPT ![t] = "ra_wait"]
              /\ UNCHANGED result
         ELSE /\ result' = [result EXCEPT ![t] = <<>>]
              /\ pc' = [pc EXCEPT ![t] = "ra_ret"]
              /\ UNCHANGED <<paState, run>>
    /\ UNCHANGED <<stream_, is_recording_, flagVars, bufVars, last_recording_,
                   recording_thread_, cbVars, getVars, envVars, calls, session,
                   spawned, published, hist, sysVars, fault, auxVars>>

\* audio_recorder.cpp:202-205  while (!should_stop_) Pa_Sleep(100): leave the loop
RA_Wait(t) ==
    /\ fault = "none"
    /\ pc[t] = "ra_wait"
    /\ should_stop_
    /\ pc' = [pc EXCEPT ![t] = "ra_stop"]
    /\ UNCHANGED <<stream_, paState, is_recording_, flagVars, bufVars, last_recording_,
                   recording_thread_, result, cbVars, getVars, envVars, calls, session,
                   run, spawned, published, hist, sysVars, fault, auxVars>>

\* audio_recorder.cpp:207-211  Pa_StopStream returns once no callback is running;
\* an error (the stream is already stopped) is only logged
RA_Stop(t) ==
    /\ fault = "none"
    /\ pc[t] = "ra_stop"
    /\ cbPc = "idle"
    /\ paState' = "stopped"
    /\ pc' = [pc EXCEPT ![t] = "ra_copy"]
    /\ UNCHANGED <<stream_, is_recording_, flagVars, bufVars, last_recording_,
                   recording_thread_, result, cbVars, getVars, envVars, calls, session,
                   run, spawned, published, hist, sysVars, fault, auxVars>>

\* audio_recorder.cpp:213-214  take buffer_mutex_, which no callback holds then,
\* and copy the accumulated buffer out
RA_Copy(t) ==
    /\ fault = "none"
    /\ pc[t] = "ra_copy"
    /\ pf.pos = "none"
    /\ result' = [result EXCEPT ![t] = audio_buffer_]
    /\ pc' = [pc EXCEPT ![t] = "ra_ret"]
    /\ UNCHANGED <<stream_, paState, is_recording_, flagVars, bufVars, last_recording_,
                   recording_thread_, cbVars, getVars, envVars, calls, session, run,
                   spawned, published, hist, sysVars, fault, auxVars>>
\* ---------------------------------------------------------- audio callback
\* processAudioFrame holds buffer_mutex_ from line 110 to its return, so one
\* callback at a time is inside it; recordAudio's reset and the client's calls do
\* not take the mutex and come in between its statements. Its steps end where it
\* next reads or writes state the reset writes: the ring (116-120), the
\* accumulation buffer of the neural VAD (312, 315-322), the detector (325), the
\* clock (145), last_speech_time_ (148), speech_detected_ and the accumulated
\* buffer (149-155, 158-160), the timestamps and the stop flag (162-171). A call of
\* the detector is one step. No vad_callback_ is set (lines 141-143).

\* audio_recorder.hpp:89-90, audio_recorder.cpp:125-138  the branch taken: energy
\* for vad_type "energy", the detector for "silero" with a detector set, and energy
\* again for anything else
UsesSilero(type, hasDetector) == type # "energy" /\ type = "silero" /\ hasDetector

\* The frames the driver can deliver as the n-th: with the energy VAD the frame of
\* that number, with the neural VAD any chunk of levels.
Frames(n) == IF vad_type = "silero" THEN VadChunks ELSE {Frame(n)}

\* The frames a recorder is followed for.
FrameBound == IF vad_type = "silero" THEN MaxVadFrames ELSE MaxFrames


\* What no statement of processAudioFrame touches.
pfRest == <<apiVars, vadSetupVars, fnVars>>

\* audio_recorder.cpp:182-184  a clear() of thread t's reset at the same time as an
\* insert of the callback (lines 120, 153, 159, 312), where the callback's store of
\* the vector's end comes last: the clear is lost. at is the position of the
\* clear and to the one after it; no clear is lost with t = "none".
LoseClear(t, at, to) ==
    IF t = "none" THEN UNCHANGED pc
    ELSE /\ pc[t] = at
         /\ pc' = [pc EXCEPT ![t] = to]

\* The threads whose clear() an insert can undo, or none.
Losers == {"none"} \cup Threads

\* audio_recorder.cpp:100-104, 110-113  a callback begins: without a buffer it goes
\* on to its return statement; with one it calls processAudioFrame, which takes
\* buffer_mutex_ and copies the frame
Enter(hasInput, frame) ==
    IF hasInput
    THEN /\ pf.pos = "none"
         /\ frameNo < FrameBound
         /\ frameNo' = frameNo + 1
         /\ pf' = [NoFrame EXCEPT !.pos = "ring", !.frame = frame,
                                  !.detected = speech_detected_,
                                  !.stopped = should_stop_]
    ELSE UNCHANGED <<pf, frameNo>>

\* audio_recorder.cpp:94-104  the driver calls audioCallback while the stream that
\* stream_ points to is active
CB_Process ==
    /\ fault = "none"
    /\ paState = "active"
    /\ cbPc = "idle"
    /\ \E hasInput \in BOOLEAN, frame \in Frames(frameNo + 1) :
         /\ Enter(hasInput, frame)
         /\ cbPc' = IF hasInput THEN "frame" ELSE "ret"
    /\ UNCHANGED <<apiVars, pc, leaked, flagVars, bufVars, clock, hist, fault,
                   auxVars>>

\* audio_recorder.cpp:173  processAudioFrame returns and releases buffer_mutex_:
\* the callback, of stream_ or of an orphaned stream, is at its return statement
FrameLeft ==
    /\ pf' = NoFrame
    /\ IF cbPc = "frame"
       THEN /\ cbPc' = "ret"
            /\ UNCHANGED leaked
       ELSE /\ leaked' = [leaked EXCEPT !.frame = @ - 1, !.ret = @ + 1]
            /\ UNCHANGED cbPc

\* audio_recorder.cpp:116-128  the frame joins the pre-speech ring; with vad_type
\* "energy" the probability of the frame's energy decides is_speech
PF_Ring(lost) ==
    /\ fault = "none"
    /\ pf.pos = "ring"
    /\ pre_speech_buffer_' = PushRing(pre_speech_buffer_, pf.frame)
    /\ IF vad_type = "energy"
       THEN \E energy_prob \in Probs :
              pf' = [pf EXCEPT !.pos = "now", !.is_speech = IsSpeech(energy_prob)]
       ELSE pf' = [pf EXCEPT !.pos = "vad"]
    /\ LoseClear(lost, "ra_clear_ring", "ra_clear_vad")
    /\ UNCHANGED <<pfRest, cbPc, leaked, flagVars, audio_buffer_, last_speech_time_,
                   recording_start_time_, envVars, hist, vadRunVars, fault>>

\* audio_recorder.cpp:129-138, 279-312  without vad_type "energy": with a detector
\* set, computeSileroVAD appends the resampled frame to vad_buffer_; without one
\* the energy decides
PF_Vad(lost) ==
    /\ fault = "none"
    /\ pf.pos = "vad"
    /\ IF UsesSilero(vad_type, vad_detector_)
       THEN /\ vad_buffer_' = vad_buffer_ \o Resample(pf.frame)
            /\ pf' = [pf EXCEPT !.pos = "window"]
            /\ LoseClear(lost, "ra_clear_vad", "ra_clear_speech")
       ELSE /\ lost = "none"
            /\ \E energy_prob \in Probs :
                 pf' = [pf EXCEPT !.pos = "now", !.is_speech = IsSpeech(energy_prob)]
            /\ UNCHANGED <<vad_buffer_, pc>>
    /\ UNCHANGED <<pfRest, cbPc, leaked, flagVars, bufVars, envVars, hist, detVars,
                   vadOut, vadShadow, fault>>

\* audio_recorder.cpp:315-322, 329-330  with VAD_WINDOW_SIZE samples held, the
\* latest of them are the detector's input and a buffer of more than twice the
\* window is cut back; with fewer, computeSileroVAD returns 0
PF_Window ==
    /\ fault = "none"
    /\ pf.pos = "window"
    /\ IF Len(vad_buffer_) >= VAD_WINDOW_SIZE
       THEN /\ pf' = [pf EXCEPT !.pos = "detect", !.vad_input = VadInput(vad_buffer_)]
            /\ vad_buffer_' = TrimVadBuffer(vad_buffer_)
            /\ UNCHANGED <<vadOut, vadShadow>>
       ELSE /\ pf' = [pf EXCEPT !.pos = "now",
                                !.is_speech = IsSpeechSilero(TooFewSamples.smoothed_prob)]
            /\ SileroReturned(TooFewSamples, ShadowCall(TRUE))
            /\ UNCHANGED vad_buffer_
    /\ UNCHANGED <<pfRest, pc, cbPc, leaked, flagVars, bufVars, envVars, hist,
                   detVars, fault>>

\* audio_recorder.cpp:325-326, 132  vad_detector_->detectVAD(vad_input); the
\* engine may throw. Through a pointer that has been set to null since line 279
\* the call has undefined behaviour.
PF_Detect ==
    /\ fault = "none"
    /\ pf.pos = "detect"
    /\ IF ~vad_detector_
       THEN /\ fault' \in UndefinedOutcomes
            /\ UNCHANGED <<pf, detVars, vadOut, vadShadow>>
       ELSE \E engineOk \in BOOLEAN :
              \E outcome \in DetectOutcomes(
                     DetectVAD(Detector, vad_session_, pf.vad_input, engineOk,
                               input_names_, output_names_),
                     HandsDangling) :
                Detected(DetectVAD(Detector, vad_session_, pf.vad_input, engineOk,
                                   input_names_, output_names_),
                         ShadowCall(engineOk), outcome)
    /\ UNCHANGED <<pfRest, pc, cbPc, leaked, flagVars, bufVars, envVars, hist,
                   vad_buffer_>>

\* audio_recorder.cpp:145  now = steady_clock::now(), and what the session's
\* history holds of the frame
Now(now) ==
    /\ clock' = now
    /\ pf' = [pf EXCEPT !.pos = IF pf.is_speech THEN "mark" ELSE "append",
                        !.now = now]
    /\ hist' = [hist EXCEPT
          !.lastSpeechFrame = IF pf.is_speech THEN now ELSE @,
          !.allSpeech = @ /\ pf.is_speech,
          !.ringAtTrigger = IF @ = -1 /\ pf.is_speech
                            THEN Len(pre_speech_buffer_) ELSE @,
          !.windowFrames =
              IF pf.is_speech THEN @ + 1
              ELSE IF hist.lastSpeechFrame >= 0
                      /\ now - hist.lastSpeechFrame <= SilenceDuration
                   THEN @ + 1 ELSE @]
    /\ UNCHANGED <<pfRest, pc, cbPc, leaked, flagVars, bufVars, frameNo, vadRunVars,
                   fault>>

\* audio_recorder.cpp:145  the clock is read: any reading from the latest one on
PF_Now ==
    /\ fault = "none"
    /\ pf.pos = "now"
    /\ \E now \in Readings : Now(now)

\* audio_recorder.cpp:147-148  last_speech_time_ = now, for a frame with speech
PF_Mark ==
    /\ fault = "none"
    /\ pf.pos = "mark"
    /\ last_speech_time_' = pf.now
    /\ pf' = [pf EXCEPT !.pos = "trigger"]
    /\ UNCHANGED <<pfRest, pc, cbPc, leaked, flagVars, audio_buffer_,
                   pre_speech_buffer_, recording_start_time_, envVars, hist,
                   vadRunVars, fault>>

\* audio_recorder.cpp:149-155  with speech not detected before: set
\* speech_detected_ and seed the accumulated buffer with the pre-speech ring
PF_Trigger(lost) ==
    /\ fault = "none"
    /\ pf.pos = "trigger"
    /\ speech_detected_' = TRUE
    /\ audio_buffer_' = SeedBuffer(audio_buffer_, pre_speech_buffer_, speech_detected_)
    /\ pf' = [pf EXCEPT !.pos = "append", !.triggered = ~speech_detected_]
    /\ IF ~speech_detected_
       THEN LoseClear(lost, "ra_clear_buffer", "ra_clear_ring")
       ELSE lost = "none" /\ UNCHANGED pc
    /\ UNCHANGED <<pfRest, cbPc, leaked, should_stop_, pre_speech_buffer_,
                   last_speech_time_, recording_start_time_, envVars, hist,
                   vadRunVars, fault>>

\* audio_recorder.cpp:158-160  with speech_detected_ set the frame joins the
\* accumulated buffer; without, processAudioFrame returns
PF_Append(lost) ==
    /\ fault = "none"
    /\ pf.pos = "append"
    /\ audio_buffer_' = AppendFrame(audio_buffer_, pf.frame, speech_detected_)
    /\ IF speech_detected_
       THEN /\ pf' = [pf EXCEPT !.pos = "stop"]
            /\ LoseClear(lost, "ra_clear_buffer", "ra_clear_ring")
            /\ UNCHANGED <<cbPc, leaked>>
       ELSE /\ lost = "none"
            /\ FrameLeft
            /\ UNCHANGED pc
    /\ UNCHANGED <<pfRest, flagVars, pre_speech_buffer_, last_speech_time_,
                   recording_start_time_, envVars, hist, vadRunVars, fault>>

\* audio_recorder.cpp:162-173  the stop conditions: the silence since
\* last_speech_time_, else the time since recording_start_time_
PF_Stop ==
    /\ fault = "none"
    /\ pf.pos = "stop"
    /\ should_stop_' = NextShouldStop(should_stop_, pf.now, last_speech_time_,
                                      recording_start_time_)
    /\ hist' = [hist EXCEPT
          !.stopCause = IF should_stop_' /\ ~should_stop_
                        THEN (IF SilenceTimeout(pf.now, last_speech_time_)
                              THEN "silence" ELSE "max")
                        ELSE @,
          !.stopRun = IF should_stop_' /\ ~should_stop_ THEN run ELSE @]
    /\ FrameLeft
    /\ UNCHANGED <<pfRest, pc, speech_detected_, bufVars, envVars, vadRunVars, fault>>

\* audio_recorder.cpp:106  return should_stop_ ? paComplete : paContinue; after
\* paComplete the driver calls the callback no more until the stream is restarted
CB_Return ==
    /\ fault = "none"
    /\ cbPc = "ret"
    /\ cbPc' = "idle"
    /\ paState' = IF CallbackResult(should_stop_) = "paComplete" /\ paState = "active"
                  THEN "finished" ELSE paState
    /\ UNCHANGED <<stream_, is_recording_, flagVars, bufVars, last_recording_,
                   recording_thread_, pc, result, pf, leaked, getVars, envVars, calls,
                   session, run, spawned, published, hist, sysVars, fault, auxVars>>

\* audio_recorder.cpp:94-104  the callback of a stream that is still active though
\* a later initialize() has overwritten its handle: its user_data is the same
\* recorder
LK_Process ==
    /\ fault = "none"
    /\ leaked.idle > 0
    /\ \E hasInput \in BOOLEAN, frame \in Frames(frameNo + 1) :
         /\ Enter(hasInput, frame)
         /\ leaked' = IF hasInput
                      THEN [leaked EXCEPT !.idle = @ - 1, !.frame = @ + 1]
                      ELSE [leaked EXCEPT !.idle = @ - 1, !.ret = @ + 1]
    /\ UNCHANGED <<apiVars, pc, cbPc, flagVars, bufVars, clock, hist, fault, auxVars>>

\* audio_recorder.cpp:106  the return of such a callback: paComplete ends the stream
LK_Return ==
    /\ fault = "none"
    /\ leaked.ret > 0
    /\ leaked' = IF CallbackResult(should_stop_) = "paComplete"
                 THEN [leaked EXCEPT !.ret = @ - 1]
                 ELSE [leaked EXCEPT !.idle = @ + 1, !.ret = @ - 1]
    /\ UNCHANGED <<stream_, paState, is_recording_, flagVars, bufVars, last_recording_,
                   recording_thread_, pc, result, cbPc, pf, getVars, envVars, calls,
                   session, run, spawned, published, hist, sysVars, fault, auxVars>>

\* A callback is inside processAudioFrame or can enter it.
CallbackCanRun ==
    pf.pos # "none" \/ (paState = "active" /\ cbPc = "idle") \/ leaked.idle > 0

\* The statements of the reset that write plain members: the vectors (lines 182
\* to 184), the time points (187, 188) and the detector (191-193).
PlainWritePcs ==
    {"ra_clear_buffer", "ra_clear_ring", "ra_clear_vad", "ra_store_start",
     "ra_store_last", "ra_reset_detector"}

\* Those of them that write what processAudioFrame works on under buffer_mutex_,
\* which the reset does not take: the buffers and the time points, and with the
\* detector branch vad_buffer_ and the detector.
RacingPcs ==
    {"ra_clear_buffer", "ra_clear_ring", "ra_store_start", "ra_store_last"}
      \cup (IF UsesSilero(vad_type, vad_detector_)
            THEN {"ra_clear_vad", "ra_reset_detector"} ELSE {})

\* audio_recorder.cpp:182-193  such a statement at the same time as a callback's
\* processAudioFrame, or as a plain write of another thread's reset, is a data
\* race: undefined behaviour
RA_Race(t) ==
    /\ fault = "none"
    /\ IF CallbackCanRun
       THEN pc[t] \in RacingPcs
       ELSE \A u \in Threads : pc[u] \in PlainWritePcs
    /\ fault' \in UndefinedOutcomes
    /\ UNCHANGED <<recorderVars, auxVars>>

\* audio_recorder.cpp:94-107  audioCallback under a driver that keeps delivering:
\* every callback is handed a frame. The frames are numbered up to the bound;
\* later ones carry the last number.
CB_Deliver ==
    /\ fault = "none"
    /\ paState = "active"
    /\ cbPc = "idle"
    /\ pf.pos = "none"
    /\ frameNo' = IF frameNo < FrameBound THEN frameNo + 1 ELSE frameNo
    /\ \E frame \in Frames(frameNo') :
         pf' = [NoFrame EXCEPT !.pos = "ring", !.frame = frame,
                               !.detected = speech_detected_,
                               !.stopped = should_stop_]
    /\ cbPc' = "frame"
    /\ UNCHANGED <<apiVars, pc, leaked, flagVars, bufVars, clock, hist, fault,
                   auxVars>>

\* audio_recorder.cpp:145  the clock under such a driver: one time unit after the
\* reading before, followed up to MaxTime
PF_Tick ==
    /\ fault = "none"
    /\ pf.pos = "now"
    /\ Now(IF clock < MaxTime THEN clock + 1 ELSE clock)

\* ------------------------------------------------------- the control thread
\* audio_recorder.cpp:23-79  initialize(): Pa_Initialize fails, or it counts one
\* more initialisation and then the device is missing or Pa_OpenStream fails, which
\* leaves stream_ as it was, or the stream is opened and stream_ points to it. The
\* handle of a stream opened before is overwritten: that stream stays open, and
\* while it is active its callbacks go on.
Initialize ==
    /\ fault = "none"
    /\ pc["ctl"] = "idle"
    /\ calls < MaxCalls
    /\ calls' = calls + 1
    /\ \E outcome \in {"not_initialized", "not_opened", "opened"} :
         /\ paInits' = IF outcome = "not_initialized" THEN paInits ELSE paInits + 1
         /\ IF outcome = "opened"
            THEN /\ stream_' = TRUE
                 /\ paState' = "stopped"
                 /\ cbPc' = "idle"
                 /\ leaked' = IF stream_ /\ paState = "active"
                              THEN [leaked EXCEPT ![cbPc] = @ + 1]
                              ELSE leaked
            ELSE UNCHANGED <<stream_, paState, cbPc, leaked>>
    /\ UNCHANGED <<is_recording_, flagVars, bufVars, last_recording_,
                   recording_thread_, pc, result, pf, getVars, envVars, session,
                   run, spawned, published, hist, vad_type, startRead, fault, auxVars>>

\* audio_recorder.cpp:81-84, 227-231  cleanup(): with is_recording_ set it calls
\* stopRecording, which sets the stop flag
CL_Begin ==
    /\ fault = "none"
    /\ pc["ctl"] = "idle"
    /\ calls < MaxCalls
    /\ calls' = calls + 1
    /\ IF ~is_recording_
       THEN /\ pc' = [pc EXCEPT !["ctl"] = "cl_close"]
            /\ UNCHANGED <<should_stop_, hist>>
       ELSE /\ should_stop_' = TRUE
            /\ pc' = [pc EXCEPT !["ctl"] = "cl_clear"]
            /\ hist' = [hist EXCEPT !.stopCause = IF should_stop_ THEN @ ELSE "external",
                                    !.stopRun = IF should_stop_ THEN @ ELSE run]
    /\ UNCHANGED <<stream_, paState, is_recording_, speech_detected_, bufVars,
                   last_recording_, recording_thread_, result, cbVars, getVars, envVars,
                   session, run, spawned, published, sysVars, fault, auxVars>>

\* audio_recorder.cpp:232  is_recording_.store(false), in cleanup's stopRecording
CL_Clear ==
    /\ fault = "none"
    /\ pc["ctl"] = "cl_clear"
    /\ is_recording_' = FALSE
    /\ pc' = [pc EXCEPT !["ctl"] = "cl_join"]
    /\ UNCHANGED <<stream_, paState, flagVars, bufVars, last_recording_,
                   recording_thread_, result, cbVars, getVars, envVars, calls, session,
                   run, spawned, published, hist, sysVars, fault, auxVars>>

\* audio_recorder.cpp:234-236  the join, in cleanup's stopRecording
CL_Join ==
    /\ fault = "none"
    /\ pc["ctl"] = "cl_join"
    /\ recording_thread_ # "running"
    /\ recording_thread_' = "empty"
    /\ pc' = [pc EXCEPT !["ctl"] = "cl_close", !["rec"] = "none"]
    /\ UNCHANGED <<stream_, paState, is_recording_, flagVars, bufVars, last_recording_,
                   result, cbVars, getVars, envVars, calls, session, run, spawned,
                   published, hist, sysVars, fault, auxVars>>

\* audio_recorder.cpp:86-89  Pa_CloseStream, which stops the stream once no callback
\* is running, and stream_ = nullptr
CL_Close ==
    /\ fault = "none"
    /\ pc["ctl"] = "cl_close"
    /\ IF stream_
       THEN /\ cbPc = "idle"
            /\ paState' = "stopped"
            /\ stream_' = FALSE
       ELSE UNCHANGED <<stream_, paState>>
    /\ pc' = [pc EXCEPT !["ctl"] = "cl_terminate"]
    /\ UNCHANGED <<is_recording_, flagVars, bufVars, last_recording_,
                   recording_thread_, result, cbVars, getVars, envVars, calls, session,
                   run, spawned, published, hist, sysVars, fault, auxVars>>

\* audio_recorder.cpp:91  Pa_Terminate: one initialisation less; with the last one
\* PortAudio closes every stream that is still open, once its callback has returned
CL_Terminate ==
    /\ fault = "none"
    /\ pc["ctl"] = "cl_terminate"
    /\ IF paInits = 0
       THEN UNCHANGED <<paInits, leaked>>
       ELSE /\ paInits' = paInits - 1
            /\ IF paInits = 1
               THEN leaked.frame = 0 /\ leaked.ret = 0 /\ leaked' = NoLeaked
               ELSE UNCHANGED leaked
    /\ pc' = [pc EXCEPT !["ctl"] = "idle"]
    /\ UNCHANGED <<stream_, paState, is_recording_, flagVars, bufVars, last_recording_,
                   recording_thread_, result, cbPc, pf, getVars, envVars, calls, session,
                   run, spawned, published, hist, vad_type, startRead, fault, auxVars>>

\* The control thread calls the blocking recordAudio().
CallRecordAudio ==
    /\ fault = "none"
    /\ pc["ctl"] = "idle"
    /\ calls < MaxCalls
    /\ calls' = calls + 1
    /\ pc' = [pc EXCEPT !["ctl"] = "ra_reset"]
    /\ UNCHANGED <<stream_, paState, is_recording_, flagVars, bufVars, last_recording_,
                   recording_thread_, result, cbVars, getVars, envVars, session, run,
                   spawned, published, hist, sysVars, fault, auxVars>>

\* recordAudio() returns to the control thread.
CtlReturn ==
    /\ fault = "none"
    /\ pc["ctl"] = "ra_ret"
    /\ pc' = [pc EXCEPT !["ctl"] = "idle"]
    /\ UNCHANGED <<stream_, paState, is_recording_, flagVars, bufVars, last_recording_,
                   recording_thread_, result, cbVars, getVars, envVars, calls, session,
                   run, spawned, published, hist, sysVars, fault, auxVars>>

\* audio_recorder.cpp:217-224  startRecording(): nothing when already recording,
\* otherwise set the flag and spawn the recording thread
StartRecording ==
    /\ fault = "none"
    /\ pc["ctl"] = "idle"
    /\ calls < MaxCalls
    /\ calls' = calls + 1
    /\ IF is_recording_
       THEN UNCHANGED <<is_recording_, recording_thread_, pc, spawned>>
       ELSE /\ recording_thread_ = "empty"
            /\ is_recording_' = TRUE
            /\ recording_thread_' = "running"
            /\ pc' = [pc EXCEPT !["rec"] = "ra_reset"]
            /\ spawned' = spawned + 1
    /\ UNCHANGED <<stream_, paState, flagVars, bufVars, last_recording_, result, cbVars,
                   getVars, envVars, session, run, published, hist, sysVars, fault,
                   auxVars>>

\* audio_recorder.cpp:227-231  stopRecording(): nothing when not recording,
\* otherwise should_stop_.store(true)
SP_Request ==
    /\ fault = "none"
    /\ pc["ctl"] = "idle"
    /\ calls < MaxCalls
    /\ calls' = calls + 1
    /\ IF ~is_recording_
       THEN UNCHANGED <<should_stop_, pc, hist>>
       ELSE /\ should_stop_' = TRUE
            /\ pc' = [pc EXCEPT !["ctl"] = "sp_clear"]
            /\ hist' = [hist EXCEPT !.stopCause = IF should_stop_ THEN @ ELSE "external",
                                    !.stopRun = IF should_stop_ THEN @ ELSE run]
    /\ UNCHANGED <<stream_, paState, is_recording_, speech_detected_, bufVars,
                   last_recording_, recording_thread_, result, cbVars, getVars, envVars,
                   session, run, spawned, published, sysVars, fault, auxVars>>

\* audio_recorder.cpp:232  is_recording_.store(false)
SP_Clear ==
    /\ fault = "none"
    /\ pc["ctl"] = "sp_clear"
    /\ is_recording_' = FALSE
    /\ pc' = [pc EXCEPT !["ctl"] = "sp_join"]
    /\ UNCHANGED <<stream_, paState, flagVars, bufVars, last_recording_,
                   recording_thread_, result, cbVars, getVars, envVars, calls, session,
                   run, spawned, published, hist, sysVars, fault, auxVars>>

\* audio_recorder.cpp:234-236  join the recording thread: blocks until it has ended
SP_Join ==
    /\ fault = "none"
    /\ pc["ctl"] = "sp_join"
    /\ recording_thread_ # "running"
    /\ recording_thread_' = "empty"
    /\ pc' = [pc EXCEPT !["ctl"] = "idle", !["rec"] = "none"]
    /\ UNCHANGED <<stream_, paState, is_recording_, flagVars, bufVars, last_recording_,
                   result, cbVars, getVars, envVars, calls, session, run, spawned,
                   published, hist, sysVars, fault, auxVars>>

\* ----------------------------------------------------- the recording thread
\* audio_recorder.cpp:240-244  last_recording_ = recordAudio()'s result, under
\* recording_mutex_
RT_Store ==
    /\ fault = "none"
    /\ pc["rec"] = "ra_ret"
    /\ getPc # "check"
    /\ last_recording_' = result["rec"]
    /\ published' = published + 1
    /\ pc' = [pc EXCEPT !["rec"] = "rt_notify"]
    /\ UNCHANGED <<stream_, paState, is_recording_, flagVars, bufVars,
                   recording_thread_, result, cbVars, getVars, envVars, calls, session,
                   run, spawned, hist, sysVars, fault, auxVars>>

\* audio_recorder.cpp:246  recording_cv_.notify_all(), and the thread ends
RT_Notify ==
    /\ fault = "none"
    /\ pc["rec"] = "rt_notify"
    /\ getPc' = IF getPc = "blocked" THEN "check" ELSE getPc
    /\ pc' = [pc EXCEPT !["rec"] = "done"]
    /\ recording_thread_' = "finished"
    /\ UNCHANGED <<stream_, paState, is_recording_, flagVars, bufVars, last_recording_,
                   result, cbVars, getResult, getIssued, envVars, calls, session, run,
                   spawned, published, hist, sysVars, fault, auxVars>>

\* ------------------------------------------------------- getLastRecording
\* audio_recorder.cpp:250  a client calls getLastRecording and takes recording_mutex_
GetCall ==
    /\ fault = "none"
    /\ getPc = "idle"
    /\ getPc' = "check"
    /\ getIssued' = spawned
    /\ UNCHANGED <<stream_, paState, is_recording_, flagVars, bufVars, last_recording_,
                   recording_thread_, pc, result, cbVars, getResult, envVars, calls,
                   session, run, spawned, published, hist, sysVars, fault, auxVars>>

\* audio_recorder.cpp:251-252  wait(lock, pred): with the predicate !is_recording_
\* true return last_recording_, otherwise release the mutex and block
GetCheck ==
    /\ fault = "none"
    /\ getPc = "check"
    /\ IF ~is_recording_
       THEN getPc' = "done" /\ getResult' = last_recording_
       ELSE getPc' = "blocked" /\ UNCHANGED getResult
    /\ UNCHANGED <<stream_, paState, is_recording_, flagVars, bufVars, last_recording_,
                   recording_thread_, pc, result, cbVars, getIssued, envVars, calls,
                   session, run, spawned, published, hist, sysVars, fault, auxVars>>

\* A condition variable may wake spuriously: the predicate is evaluated again.
GetSpuriousWake ==
    /\ fault = "none"
    /\ getPc = "blocked"
    /\ getPc' = "check"
    /\ UNCHANGED <<stream_, paState, is_recording_, flagVars, bufVars, last_recording_,
                   recording_thread_, pc, result, cbVars, getResult, getIssued, envVars,
                   calls, session, run, spawned, published, hist, sysVars, fault,
                   auxVars>>
\* ================================================= the detector's client calls
\* The detector belongs to the client (main.cpp:52-61, 106-107): its public
\* operations and setVADDetector are calls of the control thread, at any time it is
\* not inside another call.

\* What a call of the detector leaves alone: the recorder, the call counted.
detRest ==
    <<stream_, paState, is_recording_, flagVars, bufVars, last_recording_,
      recording_thread_, pc, result, cbVars, getVars, envVars, session, run,
      spawned, published, hist, sysVars>>

\* The control thread makes one more call.
ClientCall ==
    /\ fault = "none"
    /\ pc["ctl"] = "idle"
    /\ calls < MaxCalls
    /\ calls' = calls + 1

\* vad_detector.cpp:38-79  the statements of initializeSession that can throw:
\* the load of the network, the count of its inputs, the description of an input
\* (its name is pushed before), the count of the outputs, the description of an
\* output (its name is pushed before); "none": nothing throws.
Throws ==
    {"session", "input_count", "input_info", "output_count", "output_info", "none"}

\* The statements before and after line 57.
BeforeInputsCollected == {"session", "input_count", "input_info"}
BeforeOutputsCollected == BeforeInputsCollected \cup {"output_count", "output_info"}

\* vad_detector.cpp:48-54, 68-74  the names a loop has pushed when it ends: those
\* up to the one whose description threw, or all of them
Pushed(names, thrown, pushes) == IF thrown THEN SubSeq(names, 1, pushes) ELSE names

\* vad_detector.cpp:15-30, 32-87  VADDetector::initialize on a network with three
\* inputs: the network is loaded, the names of its inputs and outputs are added to
\* those collected before, every collected name is handed to input_names_ and
\* output_names_ once more, then reset(). The exception of a statement that throws
\* is caught at line 83: what the statements before it did stays, false is
\* returned and reset() is not called.
VadInitialize ==
    /\ ClientCall
    /\ \E throws \in Throws, pushes \in 1..MaxPushes, outputs \in 1..3 :
         /\ IF throws \in {"input_info", "output_info"}
            THEN pushes <= (IF throws = "input_info" THEN NetworkInputs ELSE outputs)
            ELSE pushes = 1
         /\ throws \in BeforeOutputsCollected \ {"output_info"} => outputs = 1
         /\ vad_session_' = (throws # "session" \/ vad_session_)
         /\ input_names_str_' =
               IF throws \in {"session", "input_count"} THEN input_names_str_
               ELSE input_names_str_
                      \o Pushed(InputNames(NetworkInputs), throws = "input_info", pushes)
         /\ input_names_' =
               IF throws \in BeforeInputsCollected THEN input_names_
               ELSE input_names_ \o input_names_str_'
         /\ output_names_str_' =
               IF throws \in BeforeOutputsCollected \ {"output_info"}
               THEN output_names_str_
               ELSE output_names_str_
                      \o Pushed(OutputNames(outputs), throws = "output_info", pushes)
         /\ output_names_' =
               IF throws \in BeforeOutputsCollected THEN output_names_
               ELSE output_names_ \o output_names_str_'
         /\ Len(input_names_str_') <= MaxNames
         /\ Len(output_names_str_') <= MaxNames
         /\ IF throws = "none"
            THEN /\ state_h_' = ResetDetector(Detector).state_h_
                 /\ state_c_' = ResetDetector(Detector).state_c_
                 /\ context_' = ResetDetector(Detector).context_
                 /\ prob_history_' = ResetDetector(Detector).prob_history_
                 /\ vadOut' = [vadOut EXCEPT !.raws = <<>>]
            ELSE UNCHANGED <<detVars, vadOut>>
    /\ UNCHANGED <<vad_detector_, vad_buffer_, vadShadow, detRest, fault, fnVars>>

\* vad_detector.cpp:89-106  VADDetector::cleanup: the session is released and
\* every vector is cleared
VadCleanup ==
    /\ ClientCall
    /\ vad_session_' = FALSE
    /\ input_names_str_' = <<>>
    /\ input_names_' = <<>>
    /\ output_names_str_' = <<>>
    /\ output_names_' = <<>>
    /\ state_h_' = <<>>
    /\ state_c_' = <<>>
    /\ context_' = <<>>
    /\ prob_history_' = <<>>
    /\ vadOut' = [vadOut EXCEPT !.raws = <<>>]
    /\ UNCHANGED <<vad_detector_, vad_buffer_, vadShadow, detRest, fault, fnVars>>

\* vad_detector.cpp:108-114  VADDetector::reset, called by the client
VadReset ==
    /\ ClientCall
    /\ state_h_' = ResetDetector(Detector).state_h_
    /\ state_c_' = ResetDetector(Detector).state_c_
    /\ context_' = ResetDetector(Detector).context_
    /\ prob_history_' = ResetDetector(Detector).prob_history_
    /\ vadOut' = [vadOut EXCEPT !.raws = <<>>]
    /\ UNCHANGED <<vadSetupVars, vad_buffer_, vadShadow, detRest, fault, fnVars>>

\* The vectors a client hands to detectVAD: shorter than the window, of its size,
\* longer.
ClientAudio ==
    {[i \in 1..n |-> IF i % 2 = 1 THEN 2 ELSE 1] :
        n \in (VAD_WINDOW_SIZE - 1)..(VAD_WINDOW_SIZE + 1)}

\* vad_detector.cpp:116-206  VADDetector::detectVAD, called by the client; it is
\* no computeSileroVAD call of a session
VadDetect ==
    /\ ClientCall
    /\ \E audio \in ClientAudio, engineOk \in BOOLEAN :
         \E outcome \in DetectOutcomes(
                DetectVAD(Detector, vad_session_, audio, engineOk, input_names_,
                          output_names_),
                HandsDangling) :
           LET r == DetectVAD(Detector, vad_session_, audio, engineOk, input_names_,
                              output_names_)
           IN  IF outcome # "none"
               THEN /\ fault' = outcome
                    /\ UNCHANGED <<detVars, vadOut>>
               ELSE /\ state_h_' = r.det.state_h_
                    /\ state_c_' = r.det.state_c_
                    /\ context_' = r.det.context_
                    /\ prob_history_' = r.det.prob_history_
                    /\ vadOut' = [vadOut EXCEPT
                          !.called = FALSE, !.prob = r.prob, !.invoked = r.invoked,
                          !.input = r.input, !.engine = r.engine,
                          !.afterFailure = @ \/ vadOut.engine.failed,
                          !.raws = IF r.engine.ran /\ ~r.engine.failed
                                   THEN Append(@, r.engine.outputs[1][1]) ELSE @]
                    /\ UNCHANGED fault
    /\ UNCHANGED <<vadSetupVars, vad_buffer_, vadShadow, detRest, fnVars>>

\* audio_recorder.hpp:54  setVADDetector: vad_detector_ takes the pointer given,
\* a detector's address or null
SetVADDetector ==
    /\ ClientCall
    /\ \E detector \in BOOLEAN : vad_detector_' = detector
    /\ UNCHANGED <<vad_session_, nameVars, vadRunVars, detRest, fault, fnVars>>

\* audio_recorder.hpp:54, vad_detector.cpp:15-206  neither the setter nor the
\* detector takes a lock: such a call at the same time as line 191-193 of the
\* recording thread's reset, or as a callback of a recorder with vad_type "silero"
\* (lines 129, 279, 325), is a data race
VD_Race ==
    /\ ClientCall
    /\ IF pc["rec"] = "ra_reset_detector" THEN TRUE
       ELSE vad_type = "silero" /\ CallbackCanRun
    /\ fault' \in UndefinedOutcomes
    /\ UNCHANGED <<detRest, auxVars>>

\* ===================================== front-end and decoder functions
\* No function call is under study.
FunctionIdle ==
    /\ fnInput = [op |-> "none"]
    /\ fnOutput = [done |-> FALSE]

\* ---- unsigned 64-bit arithmetic (size_t), as eight bytes, lowest first
\* The value of an int converted to size_t.
U64(n) ==
    [k \in 1..8 |->
        IF k = 1 THEN n % 256
        ELSE IF k = 2 THEN (n \div 256) % 256
        ELSE IF k = 3 THEN (n \div 65536) % 256
        ELSE IF k = 4 THEN (n \div 16777216) % 256
        ELSE IF n < 0 THEN 255 ELSE 0]

RECURSIVE SubBytes(_, _, _, _)
SubBytes(a, b, k, borrow) ==
    IF k > 8 THEN <<>>
    ELSE LET d == a[k] - b[k] - borrow
         IN  <<d % 256>> \o SubBytes(a, b, k + 1, IF d < 0 THEN 1 ELSE 0)

\* a - b modulo 2^64
SubU64(a, b) == SubBytes(a, b, 1, 0)

RECURSIVE GeBytes(_, _, _)
GeBytes(a, b, k) ==
    IF k = 0 THEN TRUE
    ELSE IF a[k] # b[k] THEN a[k] > b[k]
    ELSE GeBytes(a, b, k - 1)

\* a >= b
GeU64(a, b) == GeBytes(a, b, 8)

RECURSIVE DivBytes(_, _, _, _)
DivBytes(a, d, k, rem) ==
    IF k = 0 THEN <<>>
    ELSE LET cur == rem * 256 + a[k]
         IN  DivBytes(a, d, k - 1, cur % d) \o <<cur \div d>>

\* a / d for an int d # 0 converted to size_t: long division by a positive d; a
\* negative d is at least 2^63 as a size_t, so the quotient is 0 or 1
DivU64(a, d) ==
    IF d > 0 THEN DivBytes(a, d, 8, 0)
    ELSE IF GeU64(a, U64(d)) THEN U64(1) ELSE U64(0)

\* static_cast<int> of a size_t: its low 32 bits in two's complement
ToInt32(a) ==
    a[1] + 256 * a[2] + 65536 * a[3]
      + 16777216 * (IF a[4] >= 128 THEN a[4] - 256 ELSE a[4])

\* ---- outcomes of a call
Returned(value) == [done |-> TRUE, status |-> "ok", value |-> value]
Thrown(what) == [done |-> TRUE, status |-> what, value |-> <<>>]

\* ---- AudioProcessor::preprocess
\* Mutant of PreemphasisLoop: the loop runs from the low index to the high one.
RECURSIVE PreemphasisLoopAscending(_, _)
PreemphasisLoopAscending(res, i) ==
    IF i = 0 THEN res
    ELSE LET k == Len(res) - i
         IN  PreemphasisLoopAscending(
                 [res EXCEPT ![k + 1] = @ - (Preemphasis * res[k]) \div 100], i - 1)

\* audio_processor.cpp:142-144  for (i = size - 1; i > 0; --i)
\*     result[i] = result[i] - preemphasis * result[i - 1];
\* res holds hundredths and is indexed from 1: the code's result[i] is res[i + 1].
RECURSIVE PreemphasisLoop(_, _)
PreemphasisLoop(res, i) ==
    IF i = 0 THEN res
    ELSE PreemphasisLoop(
             [res EXCEPT ![i + 1] = @ - (Preemphasis * res[i]) \div 100], i - 1)

\* audio_processor.cpp:137-148  AudioProcessor::preprocess. The samples are
\* integers and the result is in hundredths (preemphasis is 0.97). The loop starts
\* at size() - 1 computed in size_t: for an empty vector that is 2^64 - 1, and the
\* first iteration accesses result[2^64 - 1].
Preprocess(audio) ==
    LET res == [i \in 1..Len(audio) |-> 100 * audio[i]]
        first == SubU64(U64(Len(audio)), U64(1))
    IN  IF Preemphasis > 0 /\ first # U64(0) /\ GeU64(first, U64(Len(audio)))
        THEN [status |-> "undefined", value |-> <<>>]
        ELSE [status |-> "ok",
              value |-> IF Preemphasis > 0 /\ Len(audio) > 0
                        THEN PreemphasisLoop(res, Len(audio) - 1) ELSE res]

\* ---- AudioProcessor::frameSignal
\* audio_processor.cpp:188  static_cast<int>((signal.size() - frame_length) /
\* frame_shift): the ints are converted to size_t, the quotient is cut to 32 bits
NumFramesCast(size, frame_length, frame_shift) ==
    ToInt32(DivU64(SubU64(U64(size), U64(frame_length)), frame_shift))

\* audio_processor.cpp:192-201  frame i, from start = i * frame_shift to end =
\* start + frame_length. vector::assign of a range whose end lies before its
\* start takes the negative distance for a size above max_size() and throws
\* std::length_error; a range that starts before the signal is read outside it;
\* a frame that ends after the signal is padded with zeros.
FrameAt(signal, i, frame_length, frame_shift) ==
    LET start == i * frame_shift
        end == start + frame_length
        size == Len(signal)
    IN  IF end <= size
        THEN IF end < start THEN [status |-> "length_error", value |-> <<>>]
             ELSE IF start < 0 THEN [status |-> "undefined", value |-> <<>>]
             ELSE [status |-> "ok", value |-> SubSeq(signal, start + 1, end)]
        ELSE IF start > size THEN [status |-> "length_error", value |-> <<>>]
             ELSE IF start < 0 THEN [status |-> "undefined", value |-> <<>>]
             ELSE [status |-> "ok",
                   value |-> SubSeq(signal, start + 1, size)
                               \o Zeros(frame_length - (size - start))]

\* audio_processor.cpp:191-204  for (i = 0; i < num_frames; ++i): the frames
\* pushed, up to the first one that cannot be made
RECURSIVE FrameLoop(_, _, _, _, _)
FrameLoop(signal, i, num_frames, frame_length, frame_shift) ==
    IF i >= num_frames THEN [status |-> "ok", value |-> <<>>]
    ELSE LET frame == FrameAt(signal, i, frame_length, frame_shift)
             rest == FrameLoop(signal, i + 1, num_frames, frame_length, frame_shift)
         IN  IF frame.status # "ok" THEN frame
             ELSE IF rest.status # "ok" THEN rest
             ELSE [status |-> "ok", value |-> <<frame.value>> \o rest.value]

\* audio_processor.cpp:189  frames.reserve(num_frames) of more frames than this
\* asks the allocator for gigabytes, and throws std::bad_alloc when it has not got
\* them.
MaxReserve == 1000000

\* audio_processor.cpp:185-207  AudioProcessor::frameSignal: a division by
\* frame_shift = 0 and the overflow of the count + 1 are undefined; reserve() of a
\* negative count (a size above max_size()) throws std::length_error; then the
\* frames one by one. reserved is the count handed to reserve().
FrameSignal(signal, frame_length, frame_shift) ==
    IF frame_shift = 0 THEN [status |-> "undefined", value |-> <<>>, reserved |-> 0]
    ELSE LET cast == NumFramesCast(Len(signal), frame_length, frame_shift)
             num_frames == cast + 1
             frames == FrameLoop(signal, 0, num_frames, frame_length, frame_shift)
         IN  IF cast = 2147483647
             THEN [status |-> "undefined", value |-> <<>>, reserved |-> 0]
             ELSE IF num_frames < 0
             THEN [status |-> "length_error", value |-> <<>>, reserved |-> num_frames]
             ELSE [status |-> frames.status, value |-> frames.value,
                   reserved |-> num_frames]

\* ---- AudioProcessor::initializeMelFilterbank
\* audio_processor.cpp:70-88  the weight of FFT bin j in the filter with boundary
\* bins start <= center <= end, as a fraction: zero as resized, then the left loop
\* over [start, center), then the right loop over [center, end)
MelWeight(start, center, end, j) ==
    IF j >= center /\ j < end /\ end # center
    THEN [num |-> end - j, den |-> end - center]
    ELSE IF j >= start /\ j < center /\ center # start
    THEN [num |-> j - start, den |-> center - start]
    ELSE [num |-> 0, den |-> 1]

\* audio_processor.cpp:68-89  the filters from the boundary bins (bin j is element
\* j + 1 of a filter)
MelFilterbank(bin_points, fft_size) ==
    [i \in 1..(Len(bin_points) - 2) |->
        [k \in 1..fft_size |->
            MelWeight(bin_points[i], bin_points[i + 1], bin_points[i + 2], k - 1)]]

\* ---- exact arithmetic of the spectral features
\* The features are followed in exact arithmetic (the rounding of float is not):
\* a sample is a number of hundredths, a window coefficient a number of
\* hundredths, a power a number of 10^-8, a filter weight and a mel energy a
\* fraction. The boundary bins of the filters are followed in float, further
\* down: a floor is taken of them, which the rounding decides.
RECURSIVE Gcd(_, _)
Gcd(a, b) == IF b = 0 THEN a ELSE Gcd(b, a % b)

\* num / den in lowest terms (num >= 0, den > 0)
Frac(num, den) == [num |-> num \div Gcd(num, den), den |-> den \div Gcd(num, den)]

AddFrac(a, b) == Frac(a.num * b.den + b.num * a.den, a.den * b.den)

\* ---- numbers of any size
\* A natural number is the sequence of its digits to the base 2^14, the least
\* significant first, the last one not zero. A carry is told from the digits
\* below, so that no operation goes from digit to digit.
Limb == 2^14

\* the result of a computation given by its steps, each computed in its turn: the
\* last of them. An operation names its operands as its first steps.
Result(steps) == steps[Len(steps)]

Digit(a, i) == IF i >= 1 /\ i <= Len(a) THEN a[i] ELSE 0

\* a without its leading zero digits
BigTrim(a) ==
    LET used == {i \in 1..Len(a) : a[i] # 0}
    IN  IF used = {} THEN <<>>
        ELSE SubSeq(a, 1, CHOOSE i \in used : \A j \in used : j <= i)

\* n (0 <= n < 2^31) and back
Big(n) == BigTrim(<<n % Limb, (n \div Limb) % Limb, n \div (Limb * Limb)>>)
BigInt(a) == Digit(a, 1) + Limb * Digit(a, 2) + Limb * Limb * Digit(a, 3)

\* a + b: digit k gets a carry when a digit below overflows and every digit
\* between the two is full
BigAdd(a, b) ==
    LET n == (IF Len(a) > Len(b) THEN Len(a) ELSE Len(b)) + 1
        sum == SubSeq([i \in 1..n |-> Digit(a, i) + Digit(b, i)], 1, n)
        carry == [k \in 1..n |->
                    IF \E j \in 1..(k - 1) :
                           sum[j] >= Limb /\ \A l \in (j + 1)..(k - 1) : sum[l] >= Limb - 1
                    THEN 1 ELSE 0]
        digits == SubSeq([k \in 1..n |-> (sum[k] + carry[k]) % Limb], 1, n)
    IN  Result(<<sum, digits, BigTrim(digits)>>)

\* a - b for a >= b: digit k lends when a digit below falls short and every digit
\* between the two is empty
BigSub(a, b) ==
    LET n == Len(a)
        diff == SubSeq([i \in 1..n |-> a[i] - Digit(b, i)], 1, n)
        borrow == [k \in 1..n |->
                     IF \E j \in 1..(k - 1) :
                            diff[j] < 0 /\ \A l \in (j + 1)..(k - 1) : diff[l] <= 0
                     THEN 1 ELSE 0]
        digits == SubSeq([k \in 1..n |-> (diff[k] - borrow[k] + Limb) % Limb], 1, n)
    IN  Result(<<diff, digits, BigTrim(digits)>>)

\* a < b: at the highest digit where they differ
BigLess(a, b) ==
    LET n == IF Len(a) > Len(b) THEN Len(a) ELSE Len(b)
    IN  \E i \in 1..n : /\ Digit(a, i) < Digit(b, i)
                        /\ \A j \in (i + 1)..n : Digit(a, j) = Digit(b, j)

\* a * 2^(14 * n)
BigUp(a, n) == IF a = <<>> \/ n = 0 THEN a ELSE [i \in 1..n |-> 0] \o a

\* a * b for a and b of at most four digits (56 binary digits): the columns of
\* the products of two digits, each column three digits that are added in their
\* places
BigMul(a, b) ==
    LET n == Len(a) + Len(b)
        column == SubSeq([k \in 1..n |->
                            Digit(a, 1) * Digit(b, k) + Digit(a, 2) * Digit(b, k - 1)
                              + Digit(a, 3) * Digit(b, k - 2) + Digit(a, 4) * Digit(b, k - 3)],
                         1, n)
        low == BigTrim([k \in 1..n |-> column[k] % Limb])
        mid == BigUp(BigTrim([k \in 1..n |-> (column[k] \div Limb) % Limb]), 1)
        high == BigUp(BigTrim([k \in 1..n |-> column[k] \div (Limb * Limb)]), 2)
        lower == BigAdd(low, mid)
    IN  Result(<<column, low, mid, high, lower, BigAdd(lower, high)>>)

\* a * 2^n
BigShl(a, n) ==
    LET by == 2^(n % 14)
    IN  BigUp(BigTrim([i \in 1..(Len(a) + 1) |->
                          ((Digit(a, i) * by) % Limb) + ((Digit(a, i - 1) * by) \div Limb)]),
              n \div 14)

\* floor(a / 2^n)
BigShr(a, n) ==
    LET rest == SubSeq(a, n \div 14 + 1, Len(a))
        low == 2^(n % 14)
        high == 2^(14 - (n % 14))
    IN  IF rest = <<>> THEN <<>>
        ELSE BigTrim([i \in 1..Len(rest) |->
                         (rest[i] \div low) + (Digit(rest, i + 1) % low) * high])

\* the number of binary digits of a
BigBits(a) ==
    IF a = <<>> THEN 0
    ELSE 14 * (Len(a) - 1) + Cardinality({k \in 0..13 : 2^k <= a[Len(a)]})

\* binary digit i of a (digit 0 is the lowest)
BigBit(a, i) == (Digit(a, i \div 14 + 1) \div 2^(i % 14)) % 2

\* the n lowest binary digits of a are zero
BigLowZero(a, n) ==
    /\ \A i \in 1..(n \div 14) : Digit(a, i) = 0
    /\ Digit(a, n \div 14 + 1) % 2^(n % 14) = 0

\* ---- binary floating point
\* A number is (-1)^neg * m * 2^e, m a natural number of any size. A float has an m
\* of at most 24 binary digits, a double one of at most 53; no number met here is
\* subnormal, infinite or not a number.
Zero == [neg |-> FALSE, m |-> <<>>, e |-> 0]

OfInt(n) == [neg |-> n < 0, m |-> Big(IF n < 0 THEN 0 - n ELSE n), e |-> 0]

One == OfInt(1)

\* x rounded to p binary digits, to the nearest, a tie going to the even one: the
\* rounding of every operation and conversion
RoundBits(p, x) ==
    LET d == BigBits(x.m) - p
        q == BigShr(x.m, d)
        up == BigBit(x.m, d - 1) = 1
                /\ (BigBit(x.m, d) = 1 \/ ~BigLowZero(x.m, d - 1))
    IN  <<x, IF d <= 0 THEN x
             ELSE <<q, [neg |-> x.neg, m |-> IF up THEN BigAdd(q, <<1>>) ELSE q,
                        e |-> x.e + d]>>[2]>>[2]

\* x * 2^k
Scale(x, k) == IF x.m = <<>> THEN x ELSE [neg |-> x.neg, m |-> x.m, e |-> x.e + k]

\* x * y, not rounded
Times(x, y) ==
    IF x.m = <<>> \/ y.m = <<>> THEN Zero
    ELSE [neg |-> x.neg # y.neg, m |-> BigMul(x.m, y.m), e |-> x.e + y.e]

\* x + y, not rounded
Plus(x, y) ==
    LET e == IF x.e < y.e THEN x.e ELSE y.e
        a == BigShl(x.m, x.e - e)
        b == BigShl(y.m, y.e - e)
    IN  IF x.m = <<>> THEN y
        ELSE IF y.m = <<>> THEN x
        ELSE Result(<<a, b,
                      IF x.neg = y.neg THEN [neg |-> x.neg, m |-> BigAdd(a, b), e |-> e]
                      ELSE IF a = b THEN Zero
                      ELSE IF BigLess(b, a) THEN [neg |-> x.neg, m |-> BigSub(a, b), e |-> e]
                      ELSE [neg |-> y.neg, m |-> BigSub(b, a), e |-> e]>>)

Minus(x, y) == Plus(x, [neg |-> ~y.neg, m |-> y.m, e |-> y.e])

\* the binary digits of a / b, five at a time, up to q >= 2^25 (a, b below 2^25):
\* q the digits, r the remainder, k the number of digits after the point
RECURSIVE QuotFrom(_, _, _, _)
QuotFrom(q, r, b, k) ==
    IF q >= 2^25 THEN [q |-> q, r |-> r, k |-> k]
    ELSE QuotFrom(32 * q + ((32 * r) \div b), (32 * r) % b, b, k + 5)

\* a number that rounds to 24 digits as x / y does, for floats x and y # 0: at
\* least 26 digits of the quotient and one more that tells whether anything
\* follows
Quot(x, y) ==
    LET a == BigInt(x.m)
        b == BigInt(y.m)
        d == QuotFrom(a \div b, a % b, b, 0)
    IN  IF x.m = <<>> THEN Zero
        ELSE [neg |-> x.neg # y.neg,
              m |-> Big(2 * d.q + (IF d.r = 0 THEN 0 ELSE 1)),
              e |-> x.e - y.e - d.k - 1]

\* the conversion to float
Float(x) == RoundBits(24, x)

\* the operations of float and of double: the exact result, rounded. The tuple
\* has the operands computed first, the result after them.
Fmul(x, y) == <<x, y, RoundBits(24, Times(x, y))>>[3]
Fadd(x, y) == <<x, y, RoundBits(24, Plus(x, y))>>[3]
Fsub(x, y) == <<x, y, RoundBits(24, Minus(x, y))>>[3]
Fdiv(x, y) == <<x, y, RoundBits(24, Quot(x, y))>>[3]
Dmul(x, y) == <<x, y, RoundBits(53, Times(x, y))>>[3]
Dadd(x, y) == <<x, y, RoundBits(53, Plus(x, y))>>[3]
Dsub(x, y) == <<x, y, RoundBits(53, Minus(x, y))>>[3]

\* std::floor of a number >= 0, as an int
Floor(x) ==
    <<x, IF x.e >= 0 THEN BigInt(BigShl(x.m, x.e)) ELSE BigInt(BigShr(x.m, 0 - x.e))>>[2]

\* the 32 bits of a float > 0
FloatBits(x) ==
    LET n == BigBits(x.m)
        m == IF n <= 24 THEN BigShl(x.m, 24 - n) ELSE BigShr(x.m, n - 24)
    IN  (x.e + n + 126) * 2^23 + (BigInt(m) - 2^23)

\* the float > 0 of 32 bits
OfFloatBits(ix) ==
    [neg |-> FALSE, m |-> Big((ix % 2^23) + 2^23),
     e |-> (ix \div 2^23) - 150]

\* the double written 0x1.hhhhhhhlllllllp+e in hexadecimal, with hi the digits
\* 1hhhhhh and lo the digits lllllll
HexDouble(neg, hi, lo, e) ==
    IF hi = 0 THEN Zero
    ELSE [neg |-> neg, m |-> BigAdd(BigShl(Big(hi), 28), Big(lo)), e |-> e - 52]

\* the double of 64 bits (a normal one, >= 0)
OfDoubleBits(bits) ==
    LET field == BigInt(BigShr(bits, 52))
        exponent == BigShl(Big(field), 52)
        fraction == BigSub(bits, exponent)
        one == BigShl(<<1>>, 52)
    IN  Result(<<field, exponent, fraction, one,
                 [neg |-> FALSE, m |-> BigAdd(fraction, one), e |-> field - 1075]>>)

\* 64 bits given as four words of 16, the highest first
Words(w1, w2, w3, w4) ==
    LET high == BigAdd(BigShl(Big(w1), 48), BigShl(Big(w2), 32))
        low == BigAdd(BigShl(Big(w3), 16), Big(w4))
    IN  Result(<<high, low, BigAdd(high, low)>>)

\* ---- std::log10 and std::pow of the C library
\* audio_processor.cpp:39, 43 call the float overloads of the C library. They are
\* followed as the GNU C library 2.36 computes them (sysdeps/ieee754/flt-32:
\* e_log10f.c, e_logf.c, e_powf.c and their data), step by step in float and in
\* double, so that the bin of a boundary that falls on a whole number, or next to
\* one, is the bin the program gets.

\* e_logf_data.c  the table of logf: 1 / c and log(c) for sixteen c between
\* 0.699 and 1.398
LogfTab ==
    <<[invc |-> HexDouble(FALSE, \h1661ec7, \h9f8f3be, 0),
       logc |-> HexDouble(TRUE, \h157bf78, \h08caade, -2)],
      [invc |-> HexDouble(FALSE, \h1571ed4, \haaf883d, 0),
       logc |-> HexDouble(TRUE, \h12bef0a, \h7c06ddb, -2)],
      [invc |-> HexDouble(FALSE, \h149539f, \h0f010b0, 0),
       logc |-> HexDouble(TRUE, \h101eae7, \hf513a67, -2)],
      [invc |-> HexDouble(FALSE, \h13c995b, \h0b80385, 0),
       logc |-> HexDouble(TRUE, \h1b31d8a, \h68224e9, -3)],
      [invc |-> HexDouble(FALSE, \h130d190, \hc8864a5, 0),
       logc |-> HexDouble(TRUE, \h16574f0, \hac07758, -3)],
      [invc |-> HexDouble(FALSE, \h125e227, \hb0b8ea0, 0),
       logc |-> HexDouble(TRUE, \h11aa2bc, \h79c8100, -3)],
      [invc |-> HexDouble(FALSE, \h11bb4a4, \ha1a343f, 0),
       logc |-> HexDouble(TRUE, \h1a4e76c, \he8c0e5e, -4)],
      [invc |-> HexDouble(FALSE, \h112358f, \h08ae5ba, 0),
       logc |-> HexDouble(TRUE, \h11973c5, \ha611ccc, -4)],
      [invc |-> HexDouble(FALSE, \h10953f4, \h19900a7, 0),
       logc |-> HexDouble(TRUE, \h1252f43, \h8e10c1e, -5)],
      [invc |-> HexDouble(FALSE, \h1000000, \h0000000, 0),
       logc |-> HexDouble(FALSE, 0, 0, 0)],
      [invc |-> HexDouble(FALSE, \h1e608cf, \hd9a47ac, -1),
       logc |-> HexDouble(FALSE, \h1aa5aa5, \hdf25984, -5)],
      [invc |-> HexDouble(FALSE, \h1ca4b31, \hf026aa0, -1),
       logc |-> HexDouble(FALSE, \h1c5e53a, \ha362eb4, -4)],
      [invc |-> HexDouble(FALSE, \h1b20365, \h76afce6, -1),
       logc |-> HexDouble(FALSE, \h1526e57, \h720db08, -3)],
      [invc |-> HexDouble(FALSE, \h19c2d16, \h3a1aa2d, -1),
       logc |-> HexDouble(FALSE, \h1bc2860, \hd224770, -3)],
      [invc |-> HexDouble(FALSE, \h1886e60, \h37841ed, -1),
       logc |-> HexDouble(FALSE, \h11058bc, \h8a07ee1, -2)],
      [invc |-> HexDouble(FALSE, \h1767dcf, \h5534862, -1),
       logc |-> HexDouble(FALSE, \h1404305, \h7b6ee09, -2)]>>

\* e_logf_data.c  ln2
Ln2 == HexDouble(FALSE, \h162e42f, \hefa39ef, -1)

\* e_logf_data.c  poly: the coefficients of log(1 + r) - r
LogfPoly ==
    <<HexDouble(TRUE, \h100ea34, \h8b88334, -2),
      HexDouble(FALSE, \h15575b0, \hbe00b6a, -2),
      HexDouble(TRUE, \h1ffffef, \h20a4123, -2)>>

\* e_logf.c  logf of a float x in [1, 2): x = 2^k * z with z in [OFF, 2 * OFF), OFF
\* the float of bits 0x3f330000, and c the entry of the table for z
LogfExponent(x) == (FloatBits(x) - \h3f330000) \div 2^23
LogfEntry(x) == LogfTab[(((FloatBits(x) - \h3f330000) \div 2^19) % 16) + 1]
LogfReduced(x) == OfFloatBits(FloatBits(x) - LogfExponent(x) * 2^23)

\* e_logf.c  y = A[1] * r + A[2]; y = A[0] * r2 + y; y = y * r2 + (y0 + r), in
\* double, returned as a float
LogfSeries(r, r2, y0) ==
    <<r, r2, y0,
      Float(Dadd(Dmul(Dadd(Dmul(LogfPoly[1], r2), Dadd(Dmul(LogfPoly[2], r), LogfPoly[3])),
                      r2),
                 Dadd(y0, r)))>>[4]

\* e_logf.c  r2 = r * r
LogfOf(r, y0) == <<r, LogfSeries(r, Dmul(r, r), y0)>>[2]

\* e_logf.c  log(x) = log1p(z / c - 1) + log(c) + k * ln2: r = z * invc - 1, y0 =
\* logc + k * Ln2
Logf(x) ==
    <<x, LogfOf(Dsub(Dmul(LogfReduced(x), LogfEntry(x).invc), One),
                Dadd(LogfEntry(x).logc, Dmul(OfInt(LogfExponent(x)), Ln2)))>>[2]

\* e_log10f.c  the constants ivln10, log10_2hi and log10_2lo
Ivln10 == OfFloatBits(\h3ede5bd9)
Log10Of2Hi == OfFloatBits(\h3e9a2080)
Log10Of2Lo == OfFloatBits(\h355427db)

\* e_log10f.c  x = 2^k * (the float of x's fraction and exponent 0), for a float
\* x >= 1: k as a float, and that float
Log10Exponent(x) == OfInt((FloatBits(x) \div 2^23) - 127)
Log10Fraction(x) == OfFloatBits((FloatBits(x) % 2^23) + 127 * 2^23)

\* e_log10f.c  log10f: z = y * log10_2lo + ivln10 * logf(x); return z + y *
\* log10_2hi
Log10f(x) ==
    <<x, Fadd(Fadd(Fmul(Log10Exponent(x), Log10Of2Lo), Fmul(Ivln10, Logf(Log10Fraction(x)))),
              Fmul(Log10Exponent(x), Log10Of2Hi))>>[2]

\* e_exp2f_data.c  the table of exp2f: the bits of 2^(i / 32), less i * 2^47, for
\* i in 0..31, each as four words of 16 bits
Exp2Tab ==
    <<Words(\h3ff0, \h0000, \h0000, \h0000), Words(\h3fef, \hd9b0, \hd315, \h8574),
      Words(\h3fef, \hb558, \h6cf9, \h890f), Words(\h3fef, \h9301, \hd012, \h5b51),
      Words(\h3fef, \h72b8, \h3c7d, \h517b), Words(\h3fef, \h5487, \h3168, \hb9aa),
      Words(\h3fef, \h387a, \h6e75, \h6238), Words(\h3fef, \h1e9d, \hf51f, \hdee1),
      Words(\h3fef, \h06fe, \h0a31, \hb715), Words(\h3fee, \hf1a7, \h373a, \ha9cb),
      Words(\h3fee, \hdea6, \h4c12, \h3422), Words(\h3fee, \hce08, \h6061, \h892d),
      Words(\h3fee, \hbfda, \hd536, \h2a27), Words(\h3fee, \hb42b, \h569d, \h4f82),
      Words(\h3fee, \hab07, \hdd48, \h5429), Words(\h3fee, \ha47e, \hb03a, \h5585),
      Words(\h3fee, \ha09e, \h667f, \h3bcd), Words(\h3fee, \h9f75, \he8ec, \h5f74),
      Words(\h3fee, \ha114, \h73eb, \h0187), Words(\h3fee, \ha589, \h994c, \hce13),
      Words(\h3fee, \hace5, \h422a, \ha0db), Words(\h3fee, \hb737, \hb0cd, \hc5e5),
      Words(\h3fee, \hc491, \h82a3, \hf090), Words(\h3fee, \hd503, \hb23e, \h255d),
      Words(\h3fee, \he89f, \h995a, \hd3ad), Words(\h3fee, \hff76, \hf2fb, \h5e47),
      Words(\h3fef, \h199b, \hdd85, \h529c), Words(\h3fef, \h3720, \hdcef, \h9069),
      Words(\h3fef, \h5818, \hdcfb, \ha487), Words(\h3fef, \h7c97, \h337b, \h9b5f),
      Words(\h3fef, \ha4af, \ha2a4, \h90da), Words(\h3fef, \hd076, \h5b6e, \h4540)>>

\* e_exp2f_data.c  poly: the coefficients of 2^r - 1
Exp2Poly ==
    <<HexDouble(FALSE, \h1c6af84, \hb912394, -5),
      HexDouble(FALSE, \h1ebfce5, \h0fac4f3, -3),
      HexDouble(FALSE, \h162e42f, \hf0c52d6, -1)>>

\* e_powf.c  log2_inline of 10.0f, the base at audio_processor.cpp:43
Log2Of10 == HexDouble(FALSE, \h1a934f0, \h979b22d, 1)

\* e_powf.c  SHIFT, 0x1.8p+47: a double added to it loses its digits below 1 / 32
Exp2Shift == [neg |-> FALSE, m |-> <<3>>, e |-> 46]

\* e_powf.c  s: the double whose bits are T[ki % 32] + (ki << 47), 2^(ki / 32)
Exp2Scale(ki) == OfDoubleBits(BigAdd(Exp2Tab[(ki % 32) + 1], BigShl(Big(ki), 47)))

\* e_powf.c  z = C[0] * r + C[1]; r2 = r * r; y = C[2] * r + 1; y = z * r2 + y;
\* y = y * s, in double, returned as a float
Exp2Series(ki, r) ==
    <<ki, r,
      Float(Dmul(Dadd(Dmul(Dadd(Dmul(Exp2Poly[1], r), Exp2Poly[2]), Dmul(r, r)),
                      Dadd(Dmul(Exp2Poly[3], r), One)),
                 Exp2Scale(ki)))>>[3]

\* e_powf.c  ki = 32 * kd, r = xd - kd
Exp2Of(xd, kd) == <<xd, kd, Exp2Series(Floor(Scale(kd, 5)), Dsub(xd, kd))>>[3]

\* e_powf.c  exp2_inline: kd is xd rounded to a multiple of 1 / 32 (SHIFT added
\* and taken away)
Exp2(xd) == <<xd, Exp2Of(xd, Dsub(Dadd(xd, Exp2Shift), Exp2Shift))>>[2]

\* e_powf.c  powf(10.0f, y) for a float y >= 0 whose power is a finite float:
\* exp2_inline of y * log2(10)
Pow10f(y) == Exp2(Dmul(y, Log2Of10))

\* ---- AudioProcessor::initializeMelFilterbank, the boundary bins
\* audio_processor.cpp:38-40  hz_to_mel: 2595.0f * std::log10(1.0f + hz / 700.0f)
HzToMel(hz) == <<hz, Fmul(OfInt(2595), Log10f(Fadd(One, Fdiv(hz, OfInt(700)))))>>[2]

\* audio_processor.cpp:42-44  mel_to_hz: 700.0f * (std::pow(10.0f, mel / 2595.0f)
\* - 1.0f)
MelToHz(mel) == <<mel, Fmul(OfInt(700), Fsub(Pow10f(Fdiv(mel, OfInt(2595))), One))>>[2]

\* audio_processor.cpp:46-47, 52, 58  hz_points[i] for sample_rate >= 1: nyquist =
\* sample_rate / 2.0f, mel_max = hz_to_mel(nyquist), mel_points[i] = i * mel_max /
\* (num_filters + 1), each int converted to float and each operation rounded
HzPoint(i, sample_rate, num_filters) ==
    MelToHz(Fdiv(Fmul(Float(OfInt(i)),
                      HzToMel(Fdiv(Float(OfInt(sample_rate)), OfInt(2)))),
                 Float(OfInt(num_filters + 1))))

\* audio_processor.cpp:64  floor((n_fft + 1) * hz_points[i] / sample_rate), the
\* product and the quotient in float
BinFloor(i, sample_rate, n_fft, num_filters) ==
    Floor(Fdiv(Fmul(Float(OfInt(n_fft + 1)), HzPoint(i, sample_rate, num_filters)),
               Float(OfInt(sample_rate))))

\* audio_processor.cpp:62-66  bin_points: num_filters + 2 of them, none above
\* fft_size - 1 (point i is element i + 1)
BinPoints(sample_rate, n_fft, num_filters) ==
    SubSeq([k \in 1..(num_filters + 2) |->
               LET bin == BinFloor(k - 1, sample_rate, n_fft, num_filters)
                   fft_size == n_fft \div 2 + 1
               IN  IF bin < fft_size - 1 THEN bin ELSE fft_size - 1],
           1, num_filters + 2)

\* ---- AudioProcessor::createHammingWindow
\* 2 * cos(2 * pi * i / n) for the n at which it is an integer
TwiceCos(i, n) ==
    CASE n = 1 -> 2
      [] n = 2 -> <<2, -2>>[(i % 2) + 1]
      [] n = 3 -> <<2, -1, -1>>[(i % 3) + 1]
      [] n = 4 -> <<2, 0, -2, 0>>[(i % 4) + 1]
      [] n = 6 -> <<2, 1, -1, -2, -1, 1>>[(i % 6) + 1]

\* audio_processor.cpp:96-102  window[i] = 0.54 - 0.46 * cos(2 * pi * i /
\* (size - 1)), in hundredths (window[i] is element i + 1): for the sizes 2, 3, 4,
\* 5 and 7, whose cosines are rational. The window of another size is not
\* followed.
HammingWindow(size) == [k \in 1..size |-> 54 - 23 * TwiceCos(k - 1, size - 1)]

\* ---- AudioProcessor::computeFbank
\* audio_processor.cpp:159-163  the frame times the window, in a vector of n_fft
\* zeros: the products are written outside it when both the frame and the window
\* are longer than n_fft. In units of 10^-4.
WindowedFrame(frame, window, n_fft) ==
    LET copy_len == IF Len(frame) < Len(window) THEN Len(frame) ELSE Len(window)
    IN  IF copy_len > n_fft THEN [status |-> "undefined", value |-> <<>>]
        ELSE [status |-> "ok",
              value |-> [k \in 1..n_fft |->
                           IF k <= copy_len THEN frame[k] * window[k] ELSE 0]]

\* exp(-2 * pi * i * turns / 4): the powers of -i
QuarterTurn(turns) ==
    <<[re |-> 1, im |-> 0], [re |-> 0, im |-> -1],
      [re |-> -1, im |-> 0], [re |-> 0, im |-> 1]>>[(turns % 4) + 1]

\* The sum over n of signal[n] * exp(-2 * pi * i * bin * n / N), from sample n on
RECURSIVE DftSum(_, _, _)
DftSum(signal, bin, n) ==
    IF n >= Len(signal) THEN [re |-> 0, im |-> 0]
    ELSE LET w == QuarterTurn(bin * n * (4 \div Len(signal)))
             rest == DftSum(signal, bin, n + 1)
         IN  [re |-> signal[n + 1] * w.re + rest.re,
              im |-> signal[n + 1] * w.im + rest.im]

\* audio_processor.cpp:209-238  AudioProcessor::fft: the real-to-complex
\* transform of FFTW, bins 0 to N / 2 (bin b is element b + 1), for the N that
\* divide 4: the transform of another size is not followed.
Fft(signal) == [k \in 1..(Len(signal) \div 2 + 1) |-> DftSum(signal, k - 1, 0)]

\* audio_processor.cpp:240-250  AudioProcessor::computePowerSpectrum: the squared
\* magnitude of every bin. In units of 10^-8.
ComputePowerSpectrum(fft_result) ==
    [k \in 1..Len(fft_result) |->
        fft_result[k].re * fft_result[k].re + fft_result[k].im * fft_result[k].im]

\* audio_processor.cpp:256-258  mel_features[i] += power_spectrum[j] *
\* mel_filterbank_[i][j], from bin j on, over the bins both have
RECURSIVE MelSum(_, _, _)
MelSum(power_spectrum, filter, j) ==
    IF j >= Len(power_spectrum) \/ j >= Len(filter) THEN [num |-> 0, den |-> 1]
    ELSE AddFrac(Frac(power_spectrum[j + 1] * filter[j + 1].num, filter[j + 1].den),
                 MelSum(power_spectrum, filter, j + 1))

\* audio_processor.cpp:252-262  AudioProcessor::applyMelFilterbank
ApplyMelFilterbank(power_spectrum, mel_filterbank, n_mels) ==
    [i \in 1..n_mels |-> MelSum(power_spectrum, mel_filterbank[i], 0)]

\* audio_processor.cpp:176  val = log(max(val, 1e-10f)): the natural logarithm
\* of the energy, or of the floor for an energy below it (10^-10 is a hundredth
\* of the unit). The logarithm itself is not evaluated: ln names its argument.
LogMel(val) ==
    [ln |-> IF val.num >= (val.den + 99) \div 100 THEN val
            ELSE [num |-> 1, den |-> 100]]

\* audio_processor.cpp:157-179  the features of one frame: window, FFT, power
\* spectrum, mel filterbank, logarithm
FbankFrame(frame, window, mel_filterbank, n_fft, n_mels) ==
    LET windowed_frame == WindowedFrame(frame, window, n_fft)
        mel_features == ApplyMelFilterbank(
                            ComputePowerSpectrum(Fft(windowed_frame.value)),
                            mel_filterbank, n_mels)
    IN  IF windowed_frame.status # "ok" THEN windowed_frame
        ELSE [status |-> "ok",
              value |-> [i \in 1..n_mels |-> LogMel(mel_features[i])]]

\* audio_processor.cpp:157-180  for (const auto& frame : frames), from frame k on
RECURSIVE FbankLoop(_, _, _, _, _, _)
FbankLoop(frames, k, window, mel_filterbank, n_fft, n_mels) ==
    IF k > Len(frames) THEN [status |-> "ok", value |-> <<>>]
    ELSE LET features == FbankFrame(frames[k], window, mel_filterbank, n_fft, n_mels)
             rest == FbankLoop(frames, k + 1, window, mel_filterbank, n_fft, n_mels)
         IN  IF features.status # "ok" THEN features
             ELSE IF rest.status # "ok" THEN rest
             ELSE [status |-> "ok", value |-> <<features.value>> \o rest.value]

\* audio_processor.cpp:154-180  fbank_features as the loop over the frames leaves
\* it, with the filterbank that initializeMelFilterbank has built from the
\* boundary bins (lines 68-89), which are computed before the loop is entered
FbankFeatures(frames, bin_points, config) ==
    <<bin_points,
      FbankLoop(frames, 1, HammingWindow(config.frame_length),
                MelFilterbank(bin_points, config.n_fft \div 2 + 1),
                config.n_fft, config.n_mels)>>[2]

\* audio_processor.cpp:152-155, 182  what computeFbank comes to: the outcome of
\* frameSignal when it fails, else that of the loop, with the size that line 155
\* reserves
FbankOutcome(frames, fbank_features) ==
    IF frames.status # "ok" THEN frames
    ELSE [status |-> fbank_features.status, value |-> fbank_features.value,
          reserved |-> frames.reserved]

\* audio_processor.cpp:150-183  AudioProcessor::computeFbank on a processor whose
\* initialize() has built window_ (line 93) and mel_filterbank_ (lines 30-90)
\* for its configuration
ComputeFbank(audio, config) ==
    LET frames == FrameSignal(audio, config.frame_length, config.frame_shift)
    IN  FbankOutcome(frames,
                     FbankFeatures(frames.value,
                                   BinPoints(config.sample_rate, config.n_fft,
                                             config.n_mels),
                                   config))

\* ---- AudioProcessor::applyLFR
\* Mutant of LfrIndex: past the end the index wraps around to the first frames.
LfrIndexWrapped(i, j, size) == (i + j) % size

\* audio_processor.cpp:285-295  the frame taken for position j of the output that
\* starts at frame i: i + j, or the last frame when that is past the end
LfrIndex(i, j, size) == IF i + j < size THEN i + j ELSE size - 1

\* audio_processor.cpp:280-296  one output frame: lfr_m input frames end to end
RECURSIVE LfrFrame(_, _, _)
LfrFrame(features, i, j) ==
    IF j >= LfrM THEN <<>>
    ELSE features[LfrIndex(i, j, Len(features)) + 1] \o LfrFrame(features, i, j + 1)

\* audio_processor.cpp:279-299  for (i = 0; i < size; i += lfr_n)
RECURSIVE LfrLoop(_, _)
LfrLoop(features, i) ==
    IF i >= Len(features) THEN <<>>
    ELSE <<LfrFrame(features, i, 0)>> \o LfrLoop(features, i + LfrN)

\* audio_processor.cpp:264-302  AudioProcessor::applyLFR
ApplyLFR(features) == IF features = <<>> THEN features ELSE LfrLoop(features, 0)

\* audio_processor.cpp:121-134  what extractFeatures comes to: the outcome of
\* preprocess or of computeFbank when it fails, else the features after applyLFR
FeaturesOutcome(pre, fbank_features) ==
    IF pre.status # "ok" THEN pre
    ELSE IF fbank_features.status # "ok" THEN fbank_features
    ELSE [status |-> "ok", value |-> ApplyLFR(fbank_features.value),
          reserved |-> fbank_features.reserved]

\* audio_processor.cpp:118-135  AudioProcessor::extractFeatures on a processor
\* whose initialize() has returned: outcome and value. No CMVN file is configured
\* (Config::cmvn_file is empty), so cmvn_loaded_ is false and line 131 is skipped.
ExtractFeatures(audio, config) ==
    LET pre == Preprocess(audio)
    IN  FeaturesOutcome(pre, ComputeFbank(pre.value, config))

\* audio_processor.cpp:13-28, 92-102  the constructor stores the configuration and
\* initialize() builds the filterbank and the window and returns true; the window
\* is a vector of frame_length elements, whose constructor throws
\* std::length_error for a negative size
InitializeProcessor(frame_length, frame_shift) ==
    IF frame_length < 0 THEN [status |-> "length_error", value |-> FALSE]
    ELSE [status |-> "ok", value |-> TRUE]

\* ---- ASRModel::decodeCTC
\* asr_model.cpp:262-270  the class of the largest logit of timestep t: a later
\* class replaces the best one only when strictly larger
RECURSIVE ArgMaxLoop(_, _, _, _, _, _)
ArgMaxLoop(logits, t, vocab_size, v, max_token, max_prob) ==
    IF v >= vocab_size THEN max_token
    ELSE IF logits[t * vocab_size + v + 1] > max_prob
    THEN ArgMaxLoop(logits, t, vocab_size, v + 1, v, logits[t * vocab_size + v + 1])
    ELSE ArgMaxLoop(logits, t, vocab_size, v + 1, max_token, max_prob)

ArgMax(logits, t, vocab_size) ==
    ArgMaxLoop(logits, t, vocab_size, 1, 0, logits[t * vocab_size + 1])

\* asr_model.cpp:273
Emits(max_token, prev_token) == max_token # BlankId /\ max_token # prev_token

\* Mutant of NextPrevToken: a blank does not replace the remembered token.
NextPrevTokenEmitted(prev_token, max_token) ==
    IF max_token # BlankId THEN max_token ELSE prev_token

\* asr_model.cpp:276  prev_token = max_token
NextPrevToken(prev_token, max_token) == max_token

\* asr_model.cpp:260-277  the loop over the timesteps
RECURSIVE DecodeLoop(_, _, _, _, _)
DecodeLoop(logits, sequence_length, vocab_size, t, prev_token) ==
    IF t >= sequence_length THEN <<>>
    ELSE LET max_token == ArgMax(logits, t, vocab_size)
         IN  (IF Emits(max_token, prev_token) THEN <<max_token>> ELSE <<>>)
               \o DecodeLoop(logits, sequence_length, vocab_size, t + 1,
                             NextPrevToken(prev_token, max_token))

\* asr_model.cpp:255-280  ASRModel::decodeCTC, for sequence_length >= 1
DecodeCTC(logits, sequence_length) ==
    DecodeLoop(logits, sequence_length, Len(logits) \div sequence_length, 0, -1)

\* ---- the calls under study
\* Waveforms of up to MaxWave samples.
Waveforms == UNION {[1..n -> {1, 2}] : n \in 0..MaxWave}

\* Configurations: the default one, the small one, and ones with a frame length or
\* shift that is zero or negative.
FrontendConfigs ==
    {[sample_rate |-> FrontendSampleRate, frame_length |-> DefaultFrameLength,
      frame_shift |-> DefaultFrameShift, n_mels |-> DefaultMels,
      n_fft |-> DefaultFft]}
      \cup {[sample_rate |-> FrontendSampleRate, frame_length |-> fl,
             frame_shift |-> fs, n_mels |-> NMels, n_fft |-> NFft] :
               fl \in {-1, 0, FrameLength}, fs \in {-1, 0, FrameShift}}

PreprocessInputs == {[op |-> "preprocess", audio |-> w] : w \in Waveforms}

\* extractFeatures runs on a processor whose initialize() returned true.
ExtractInputs ==
    {[op |-> "extractFeatures", audio |-> w, sample_rate |-> c.sample_rate,
      frame_length |-> c.frame_length, frame_shift |-> c.frame_shift,
      n_mels |-> c.n_mels, n_fft |-> c.n_fft] :
        w \in Waveforms,
        c \in {d \in FrontendConfigs :
                 InitializeProcessor(d.frame_length, d.frame_shift).status = "ok"}}

InitializeInputs ==
    {[op |-> "initialize", frame_length |-> c.frame_length,
      frame_shift |-> c.frame_shift] : c \in FrontendConfigs}

\* Feature matrices whose element tells its frame and its position in it.
LfrInputs ==
    {[op |-> "applyLFR",
      features |-> [i \in 1..n |-> [d \in 1..dim |-> 10 * i + d]]] :
        n \in 0..MaxLfrFrames, dim \in 1..MaxLfrDim}

\* The logits matrix, row by row, whose largest class at each timestep is raw[t].
OneHot(raw, vocab_size) ==
    [k \in 1..(Len(raw) * vocab_size) |->
        IF (k - 1) % vocab_size = raw[(k - 1) \div vocab_size + 1] THEN 1 ELSE 0]

\* Logits matrices of up to MaxSteps timesteps over VocabSize classes, with ties,
\* and the two raw sequences of the specification.
CtcInputs ==
    {[op |-> "decodeCTC", logits |-> l, sequence_length |-> Len(l) \div VocabSize] :
        l \in UNION {[1..(n * VocabSize) -> {0, 1}] : n \in 1..MaxSteps}}
      \cup {[op |-> "decodeCTC", logits |-> OneHot(raw, VocabSize + 1),
             sequence_length |-> Len(raw)] :
               raw \in {<<0, 2, 2, 0, 3, 3, 3, 0>>, <<2, 0, 2>>}}

\* Nondecreasing boundary bins below fft_size, for NMels filters.
MelInputs ==
    {[op |-> "initializeMelFilterbank", bin_points |-> b, fft_size |-> FftBins] :
        b \in {c \in [1..(NMels + 2) -> 0..(FftBins - 1)] :
                 \A i \in 1..(NMels + 1) : c[i] <= c[i + 1]}}

\* Signals whose sample at position i is i, framed with the small configuration.
FrameInputs ==
    {[op |-> "frameSignal", signal |-> [i \in 1..n |-> i],
      frame_length |-> FrameLength, frame_shift |-> FrameShift] : n \in 0..MaxWave}

\* audio_recorder.cpp:113  the k-th frame a stream of the given channel count
\* delivers: frame_count * channels samples, numbered in delivery order
DeliveredFrame(k, channels) ==
    [i \in 1..(FramesPerBuffer * channels) |->
        (k - 1) * FramesPerBuffer * channels + i]

\* audio_recorder.cpp:116-120  the pre-speech ring of a session after its first n
\* callbacks
RECURSIVE RingAfter(_, _)
RingAfter(n, channels) ==
    IF n = 0 THEN <<>>
    ELSE PushRing(RingAfter(n - 1, channels), DeliveredFrame(n, channels))

\* Sessions of up to MaxCallbacks callbacks on streams of up to MaxChannels
\* channels.
RingInputs ==
    {[op |-> "preSpeechRing", channels |-> c, callbacks |-> n] :
        c \in 1..MaxChannels, n \in 0..MaxCallbacks}

FunctionInputs ==
    PreprocessInputs \cup ExtractInputs \cup InitializeInputs \cup LfrInputs
      \cup CtcInputs \cup MelInputs \cup FrameInputs \cup RingInputs

\* The outcome of a call: its value or its exception when defined, any of the
\* undefined outcomes otherwise; std::bad_alloc too when it reserved more than
\* MaxReserve frames.
Outcome(r) ==
    IF r.status = "undefined" THEN {Thrown(u) : u \in UndefinedOutcomes}
    ELSE (IF r.status = "ok" THEN {Returned(r.value)} ELSE {Thrown(r.status)})
           \cup (IF "reserved" \in DOMAIN r /\ r.reserved > MaxReserve
                 THEN {Thrown("bad_alloc")} ELSE {})

DoPreprocess ==
    /\ fnInput.op = "preprocess"
    /\ ~fnOutput.done
    /\ fnOutput' \in Outcome(Preprocess(fnInput.audio))
    /\ UNCHANGED <<fnInput, recorderVars, fault, vadVars>>

DoExtractFeatures ==
    /\ fnInput.op = "extractFeatures"
    /\ ~fnOutput.done
    /\ fnOutput' \in Outcome(ExtractFeatures(fnInput.audio, fnInput))
    /\ UNCHANGED <<fnInput, recorderVars, fault, vadVars>>

DoInitialize ==
    /\ fnInput.op = "initialize"
    /\ ~fnOutput.done
    /\ fnOutput' \in Outcome(InitializeProcessor(fnInput.frame_length,
                                                fnInput.frame_shift))
    /\ UNCHANGED <<fnInput, recorderVars, fault, vadVars>>

DoApplyLFR ==
    /\ fnInput.op = "applyLFR"
    /\ ~fnOutput.done
    /\ fnOutput' = Returned(ApplyLFR(fnInput.features))
    /\ UNCHANGED <<fnInput, recorderVars, fault, vadVars>>

DoDecodeCTC ==
    /\ fnInput.op = "decodeCTC"
    /\ ~fnOutput.done
    /\ fnOutput' = Returned(DecodeCTC(fnInput.logits, fnInput.sequence_length))
    /\ UNCHANGED <<fnInput, recorderVars, fault, vadVars>>

DoInitializeMelFilterbank ==
    /\ fnInput.op = "initializeMelFilterbank"
    /\ ~fnOutput.done
    /\ fnOutput' = Returned(MelFilterbank(fnInput.bin_points, fnInput.fft_size))
    /\ UNCHANGED <<fnInput, recorderVars, fault, vadVars>>

DoFrameSignal ==
    /\ fnInput.op = "frameSignal"
    /\ ~fnOutput.done
    /\ fnOutput' \in Outcome(FrameSignal(fnInput.signal, fnInput.frame_length,
                                        fnInput.frame_shift))
    /\ UNCHANGED <<fnInput, recorderVars, fault, vadVars>>

DoPreSpeechRing ==
    /\ fnInput.op = "preSpeechRing"
    /\ ~fnOutput.done
    /\ fnOutput' = Returned(RingAfter(fnInput.callbacks, fnInput.channels))
    /\ UNCHANGED <<fnInput, recorderVars, fault, vadVars>>

NextFunctions ==
    \/ DoPreprocess
    \/ DoExtractFeatures
    \/ DoInitialize
    \/ DoApplyLFR
    \/ DoDecodeCTC
    \/ DoInitializeMelFilterbank
    \/ DoFrameSignal
    \/ DoPreSpeechRing

\* One call of a front-end or decoder function on an input of FunctionInputs.
InitFunctions ==
    /\ RecorderInit
    /\ DetectorInit
    /\ fnInput \in FunctionInputs
    /\ fnOutput = [done |-> FALSE]
Init == RecorderInit /\ DetectorInit /\ FunctionIdle

\* The operations of a recorder with the energy VAD, of its client and of the
\* driver.
Next ==
    \/ \E t \in Threads : RA_Reset(t)
    \/ \E t \in Threads : RA_ClearBuffer(t)
    \/ \E t \in Threads : RA_ClearRing(t)
    \/ \E t \in Threads : RA_ClearVad(t)
    \/ \E t \in Threads : RA_ClearSpeech(t)
    \/ \E t \in Threads : RA_ClearStop(t)
    \/ \E t \in Threads : RA_ReadClock(t)
    \/ \E t \in Threads : RA_StoreStart(t)
    \/ \E t \in Threads : RA_StoreLast(t)
    \/ \E t \in Threads : RA_ResetDetector(t)
    \/ \E t \in Threads : RA_Start(t)
    \/ \E t \in Threads : RA_Wait(t)
    \/ \E t \in Threads : RA_Stop(t)
    \/ \E t \in Threads : RA_Copy(t)
    \/ \E t \in Threads : RA_Race(t)
    \/ CB_Process
    \/ \E lost \in Losers : PF_Ring(lost)
    \/ PF_Now
    \/ PF_Mark
    \/ \E lost \in Losers : PF_Trigger(lost)
    \/ \E lost \in Losers : PF_Append(lost)
    \/ PF_Stop
    \/ CB_Return
    \/ LK_Process
    \/ LK_Return
    \/ Initialize
    \/ CL_Begin
    \/ CL_Clear
    \/ CL_Join
    \/ CL_Close
    \/ CL_Terminate
    \/ CallRecordAudio
    \/ CtlReturn
    \/ StartRecording
    \/ SP_Request
    \/ SP_Clear
    \/ SP_Join
    \/ RT_Store
    \/ RT_Notify
    \/ GetCall
    \/ GetCheck
    \/ GetSpuriousWake
    \/ VadInitialize
    \/ VadCleanup
    \/ VadReset
    \/ VadDetect
    \/ SetVADDetector
    \/ VD_Race

\* The recorder as the default constructor leaves it: the energy branch.
Spec == Init /\ [][Next]_vars

\* main.cpp:52-61  the detector after the client has constructed it and its
\* initialize() has returned true, on a network with the three outputs that
\* vad_detector.cpp:178-185 reads
DetectorInitialized ==
    /\ vad_session_ = TRUE
    /\ input_names_str_ = InputNames(NetworkInputs)
    /\ input_names_ = InputNames(NetworkInputs)
    /\ output_names_str_ = OutputNames(3)
    /\ output_names_ = OutputNames(3)
    /\ state_h_ = ResetDetector(ConstructedDetector).state_h_
    /\ state_c_ = ResetDetector(ConstructedDetector).state_c_
    /\ context_ = ResetDetector(ConstructedDetector).context_
    /\ prob_history_ = ResetDetector(ConstructedDetector).prob_history_
    /\ vad_buffer_ = <<>>
    /\ vadOut = NoVadOut
    /\ vadShadow = [det |-> ConstructedDetector, buffer |-> <<>>]

\* main.cpp:52-107  the set-up of a client that uses the neural VAD: the detector
\* is constructed and initialized, the recorder is constructed with vad_type
\* "silero", its initialize() has opened the stream, and the detector is set
InitVAD ==
    /\ RecorderState("silero", TRUE)
    /\ DetectorInitialized
    /\ vad_detector_ = TRUE
    /\ FunctionIdle

\* The steps of processAudioFrame a recorder takes only without vad_type "energy".
NeuralVadStep ==
    \/ \E lost \in Losers : PF_Vad(lost)
    \/ PF_Window
    \/ PF_Detect

\* Every operation of a recorder with vad_type "silero", of its client and of the
\* driver.
NextSilero == Next \/ NeuralVadStep

SpecSilero == InitVAD /\ [][NextSilero]_vars

\* The sessions of such a recorder under a client that uses the blocking
\* recordAudio() as main.cpp:142 does: the sessions follow one another, the client
\* calls the detector and the setter between them, and the callbacks of the stream
\* run the detector.
NextVAD ==
    \/ CallRecordAudio
    \/ RA_Reset("ctl")
    \/ RA_ClearBuffer("ctl")
    \/ RA_ClearRing("ctl")
    \/ RA_ClearVad("ctl")
    \/ RA_ClearSpeech("ctl")
    \/ RA_ClearStop("ctl")
    \/ RA_ReadClock("ctl")
    \/ RA_StoreStart("ctl")
    \/ RA_StoreLast("ctl")
    \/ RA_ResetDetector("ctl")
    \/ RA_Start("ctl")
    \/ RA_Wait("ctl")
    \/ RA_Stop("ctl")
    \/ RA_Copy("ctl")
    \/ CtlReturn
    \/ CB_Process
    \/ PF_Ring("none")
    \/ PF_Vad("none")
    \/ PF_Window
    \/ PF_Detect
    \/ PF_Now
    \/ PF_Mark
    \/ PF_Trigger("none")
    \/ PF_Append("none")
    \/ PF_Stop
    \/ CB_Return
    \/ VadInitialize
    \/ VadCleanup
    \/ VadReset
    \/ VadDetect
    \/ SetVADDetector

SpecVAD == InitVAD /\ [][NextVAD]_vars

\* A recordAudio() call of the control thread at time 0, before any session.
FirstCall == session = 0 /\ clock = 0 /\ CallRecordAudio

NextLive ==
    \/ Initialize
    \/ FirstCall
    \/ RA_Reset("ctl")
    \/ RA_ClearBuffer("ctl")
    \/ RA_ClearRing("ctl")
    \/ RA_ClearVad("ctl")
    \/ RA_ClearSpeech("ctl")
    \/ RA_ClearStop("ctl")
    \/ RA_ReadClock("ctl")
    \/ RA_StoreStart("ctl")
    \/ RA_StoreLast("ctl")
    \/ RA_ResetDetector("ctl")
    \/ RA_Start("ctl")
    \/ RA_Wait("ctl")
    \/ RA_Stop("ctl")
    \/ RA_Copy("ctl")
    \/ CtlReturn
    \/ CB_Deliver
    \/ PF_Ring("none")
    \/ PF_Tick
    \/ PF_Mark
    \/ PF_Trigger("none")
    \/ PF_Append("none")
    \/ PF_Stop
    \/ CB_Return

\* One blocking capture session under a driver that keeps delivering frames: the
\* driver calls the callback again and again while the stream is active
\* (PortAudio's audio thread), every callback runs to its return, and the control
\* thread keeps running (its wait loop polls should_stop_ every 100 ms). A session
\* that is reset at time 0 and has detected speech is over by the time the clock
\* reaches MaxTime, which is more than max_record_time, so the end of the clock
\* cuts no such session short.
SpecLive ==
    /\ Init
    /\ [][NextLive]_vars
    /\ WF_vars(CB_Deliver)
    /\ WF_vars(PF_Ring("none"))
    /\ WF_vars(PF_Tick)
    /\ WF_vars(PF_Mark)
    /\ WF_vars(PF_Trigger("none"))
    /\ WF_vars(PF_Append("none"))
    /\ WF_vars(PF_Stop)
    /\ WF_vars(CB_Return)
    /\ WF_vars(RA_Reset("ctl"))
    /\ WF_vars(RA_ClearBuffer("ctl"))
    /\ WF_vars(RA_ClearRing("ctl"))
    /\ WF_vars(RA_ClearVad("ctl"))
    /\ WF_vars(RA_ClearSpeech("ctl"))
    /\ WF_vars(RA_ClearStop("ctl"))
    /\ WF_vars(RA_ReadClock("ctl"))
    /\ WF_vars(RA_StoreStart("ctl"))
    /\ WF_vars(RA_StoreLast("ctl"))
    /\ WF_vars(RA_ResetDetector("ctl"))
    /\ WF_vars(RA_Start("ctl"))
    /\ WF_vars(RA_Wait("ctl"))
    /\ WF_vars(RA_Stop("ctl"))
    /\ WF_vars(RA_Copy("ctl"))

\* The front-end and decoder functions, each applied to one input.
SpecFunctions == InitFunctions /\ [][NextFunctions]_vars

\* ------------------------------------------------------------------ claims

\* A step of processAudioFrame, its first (the callback takes buffer_mutex_)
\* and its last (it returns) included.
FrameStep == pf' # pf

\* The step with which processAudioFrame returns.
FrameDone == pf.pos # "none" /\ pf'.pos = "none"

\* A step of recordAudio's reset, lines 176-193.
ResetStep == \E t \in Threads : pc[t] \in ResetPcs /\ pc'[t] # pc[t]

\* C1 (as claimed): in a session, while no frame has had a probability above the
\* trigger threshold, speech_detected_ stays false, the accumulated buffer stays empty and
\* only an external stop request can have set the stop flag (the session is Idle);
\* the callback of the first frame above the threshold leaves speech_detected_ set
\* and the accumulated buffer starting with the contents of the pre-speech ring.
C1_IdleUntilTrigger ==
    /\ [](hist.lastSpeechFrame = -1 =>
            /\ ~speech_detected_
            /\ audio_buffer_ = <<>>
            /\ (should_stop_ => hist.stopCause = "external"))
    /\ [][(FrameDone /\ pf.is_speech /\ hist.windowFrames = 1) =>
            /\ speech_detected_'
            /\ Len(audio_buffer_') >= Len(pre_speech_buffer_')
            /\ SubSeq(audio_buffer_', 1, Len(pre_speech_buffer_')) = pre_speech_buffer_'
         ]_vars

\* C2 (as claimed): a callback that runs in Recording sets the stop flag when the
\* time since the most recent frame above the threshold exceeds silence_duration, and a frame above
\* the threshold sets last_speech_time_ to the time of that callback.
C2_SilenceTimeout ==
    [][(FrameDone /\ pf.detected) =>
         /\ (pf.is_speech => last_speech_time_' = pf.now)
         /\ ((hist.lastSpeechFrame >= 0
                /\ pf.now - hist.lastSpeechFrame > SilenceDuration) => should_stop_')
      ]_vars

\* C3 (as claimed): every callback that leaves speech detected with
\* now - recording_start_time_ > max_record_time sets the stop flag, whatever the frame's probability; in a
\* session whose frames were all above the threshold a callback sets the flag only
\* then; and after that callback no frame is accumulated in that session's stream
\* run (the callback returns paComplete).
C3_MaxRecordTime ==
    /\ [][(FrameDone /\ speech_detected_'
             /\ pf.now - recording_start_time_' > MaxRecordTime) => should_stop_']_vars
    /\ [][(FrameDone /\ hist.allSpeech /\ ~should_stop_ /\ should_stop_') =>
             pf.now - recording_start_time_' > MaxRecordTime]_vars
    /\ [][(hist.stopCause = "max" /\ hist'.stopCause = "max"
             /\ run = hist.stopRun /\ run' = run /\ ~ResetStep) =>
             audio_buffer_' = audio_buffer_]_vars

\* C4 (as claimed): once stopRecording has issued its stop request and while the
\* recording thread has not left recordAudio's wait loop, the session is Stopped
\* (the stop flag is set), so the loop ends and the join completes.
C4_StopRequestStops ==
    (pc["ctl"] \in {"sp_clear", "sp_join"}
        /\ pc["rec"] \in ResetPcs \cup {"ra_start", "ra_wait"}) => should_stop_

\* C5 (as claimed): on an initialized recorder, a getLastRecording call issued after
\* startRecording returns only after the recording thread has stored that session's
\* buffer in last_recording_.
C5_GetAfterPublish ==
    (stream_ /\ getPc = "done" /\ getIssued >= 1) => published >= getIssued

\* C6 (as claimed): once the background session of an initialized recorder has
\* completed and published its buffer, a getLastRecording call that waits finds its
\* predicate true, so it returns.
C6_GetNeverStuck ==
    (session >= 1 /\ pc["rec"] = "done" /\ getPc \in {"check", "blocked"})
        => ~is_recording_

\* C7 (as claimed): at most one thread is inside recordAudio's session (between
\* its state reset and its return).
C7_OneSession ==
    ~(InSession("ctl") /\ InSession("rec"))

\* C8 (as claimed): within one session (from one state reset to the next)
\* speech_detected_ and should_stop_ never go from true to false, so the capture
\* state only moves Idle -> Recording, Recording -> Stopped or Idle -> Stopped; a
\* session that goes from Idle to Stopped without speech detected was stopped by an
\* external request, by no statement of the callback.
C8_Monotonic ==
    [][~ResetStep =>
         /\ (speech_detected_ => speech_detected_')
         /\ (should_stop_ => should_stop_')
         /\ <<CaptureState, CaptureState'>> \in
               {<<"Idle", "Idle">>, <<"Idle", "Recording">>, <<"Idle", "Stopped">>,
                <<"Recording", "Recording">>, <<"Recording", "Stopped">>,
                <<"Stopped", "Stopped">>}
         /\ (CaptureState = "Idle" /\ CaptureState' = "Stopped" /\ ~speech_detected_')
               => (~FrameStep /\ hist'.stopCause = "external")
      ]_vars

\* C9 (as claimed): recordAudio copies the accumulated buffer out only with the
\* session Stopped, and while the stream is active the accumulated buffer, the
\* pre-speech ring and the timestamps are changed only by a step of the callback.
C9_CallbackOwnsBuffers ==
    /\ [][\A t \in Threads : (pc[t] = "ra_copy" /\ pc'[t] = "ra_ret") => should_stop_]_vars
    /\ [][(paState = "active" /\ bufVars' # bufVars) => FrameStep]_vars

\* C10 (as claimed): a callback that begins with the stop flag set appends nothing
\* to the accumulated buffer or the pre-speech ring.
C10_StopCheckedAtTop ==
    [][(FrameStep /\ pf.stopped) =>
         /\ audio_buffer_' = audio_buffer_
         /\ pre_speech_buffer_' = pre_speech_buffer_]_vars

\* C11 (as claimed): when the silence timeout stops a session, the session was Recording before
\* that callback and is Stopped after it, and the accumulated buffer that
\* recordAudio returns for that stream run is as long as the pre-speech ring
\* was at the trigger plus the frames delivered from the trigger until
\* silence_duration after the last frame above the threshold, to within one frame.
C11_BufferLength ==
    /\ [][(hist.stopCause = "none" /\ hist'.stopCause = "silence") =>
             (pf.detected /\ ~pf.stopped /\ CaptureState' = "Stopped")]_vars
    /\ [][\A t \in Threads :
             (pc[t] = "ra_copy" /\ pc'[t] = "ra_ret"
                /\ hist.stopCause = "silence" /\ run = hist.stopRun) =>
             /\ hist.ringAtTrigger >= 0
             /\ Len(result'[t])
                   - (hist.ringAtTrigger
                        + FramesPerBuffer * Channels * hist.windowFrames)
                 \in 0..(FramesPerBuffer * Channels)]_vars

\* C20 (as claimed): a callback stops the session through the silence timeout only when the
\* most recent frame above the trigger threshold is more than silence_duration old.
C20_SustainedSilence ==
    [][(hist.stopCause # "silence" /\ hist'.stopCause = "silence") =>
         /\ hist.lastSpeechFrame >= 0
         /\ pf.now - hist.lastSpeechFrame > SilenceDuration]_vars

\* A computeSileroVAD call of a session returns: with too few samples from line
\* 330, otherwise from line 326.
SileroDone == pf.pos \in {"window", "detect"} /\ pf'.pos = "now"

\* C12: with a detector that is initialized and set, every session starts from the
\* state of a freshly reset detector and an empty accumulation buffer: between the
\* computeSileroVAD calls of a session the detector, the buffer and the probability
\* returned equal those of a shadow detector that was constructed for this session
\* alone and fed the same frames, whatever the earlier sessions and the client's
\* calls before the session did; and hidden state, cell state and context keep
\* their sizes.
C12_NoLeakage ==
    (InSession("ctl") /\ vad_session_ /\ vad_detector_
       /\ pf.pos \notin {"window", "detect"}) =>
        /\ Detector = vadShadow.det
        /\ vad_buffer_ = vadShadow.buffer
        /\ vadOut.prob = vadOut.shadowProb
        /\ Len(state_h_) = HiddenSize
        /\ Len(state_c_) = HiddenSize
        /\ Len(context_) = ContextSize

\* C12 witness: the second session has had the engine run, after a first session
\* that left a recurrent state other than the reset one.
C12_Witness ==
    /\ InSession("ctl") /\ vad_session_ /\ vad_detector_
    /\ session = 2
    /\ pf.pos = "now"
    /\ vadOut.called
    /\ vadOut.invoked
    /\ vadOut.prob.num > 0
    /\ state_h_ # Zeros(HiddenSize)

\* C13: with a detector that is initialized and set, a computeSileroVAD call that
\* returns while the session has delivered fewer than VAD_WINDOW_SIZE resampled
\* samples returns 0 without running the engine, and every call from
\* VAD_WINDOW_SIZE samples on runs the engine on the latest VAD_WINDOW_SIZE samples
\* of the session.
C13_WindowAccumulation ==
    [][(SileroDone /\ vad_session_ /\ vad_detector_) =>
         IF vadOut'.seen < VAD_WINDOW_SIZE
         THEN vadOut'.prob = ZeroProb /\ ~vadOut'.invoked
         ELSE vadOut'.invoked /\ vadOut'.input = vadOut'.recent]_vars

\* C13 witness: the engine has been run on a window that is not the first
\* VAD_WINDOW_SIZE samples of the session, after calls that returned 0.
C13_Witness ==
    /\ vad_session_ /\ vad_detector_
    /\ vadOut.called
    /\ vadOut.invoked
    /\ vadOut.seen > 2 * VAD_WINDOW_SIZE
    /\ Len(vad_buffer_) = VAD_WINDOW_SIZE
    /\ vadOut.input = vadOut.recent
    /\ vadOut.input[1] # vadOut.input[VAD_WINDOW_SIZE]

\* ---- reference definitions for the function claims
\* The lowest class among those with the largest logit at timestep t (from 1).
RawArgmax(logits, t, vocab_size) ==
    CHOOSE v \in 0..(vocab_size - 1) :
        \A w \in 0..(vocab_size - 1) :
            /\ logits[(t - 1) * vocab_size + w + 1] <= logits[(t - 1) * vocab_size + v + 1]
            /\ w < v =>
                 logits[(t - 1) * vocab_size + w + 1] < logits[(t - 1) * vocab_size + v + 1]

\* The raw argmax sequence with the blanks and the repetitions of the previous
\* raw argmax left out, up to timestep t.
RECURSIVE Collapse(_, _)
Collapse(raw, t) ==
    IF t = 0 THEN <<>>
    ELSE Collapse(raw, t - 1)
           \o (IF raw[t] # BlankId /\ (t = 1 \/ raw[t] # raw[t - 1])
               THEN <<raw[t]>> ELSE <<>>)

CtcReference(logits, sequence_length) ==
    LET vocab_size == Len(logits) \div sequence_length
        raw == [t \in 1..sequence_length |-> RawArgmax(logits, t, vocab_size)]
    IN  Collapse(raw, sequence_length)

\* C14: decodeCTC returns, for every logits matrix of at least one timestep, the
\* per-timestep argmax (ties to the lowest class) with the blanks and the
\* repetitions of the previous timestep's raw argmax left out; so the raw sequence
\* blank,2,2,blank,3,3,3,blank gives 2,3 and 2,blank,2 gives 2,2.
C14_CTCGreedy ==
    (fnInput.op = "decodeCTC" /\ fnOutput.done) =>
        /\ fnOutput.status = "ok"
        /\ fnOutput.value = CtcReference(fnInput.logits, fnInput.sequence_length)
        /\ (fnInput.logits = OneHot(<<0, 2, 2, 0, 3, 3, 3, 0>>, VocabSize + 1)
              => fnOutput.value = <<2, 3>>)
        /\ (fnInput.logits = OneHot(<<2, 0, 2>>, VocabSize + 1)
              => fnOutput.value = <<2, 2>>)

\* C14 witness: the raw sequence 2,blank,2 has been decoded to 2,2.
C14_Witness ==
    /\ fnInput.op = "decodeCTC"
    /\ fnInput.logits = OneHot(<<2, 0, 2>>, VocabSize + 1)
    /\ fnOutput.done
    /\ fnOutput.value = <<2, 2>>

\* C15 (as claimed): with a positive frame length and shift, extractFeatures on a
\* waveform shorter than frame_length (the empty one included) returns an empty
\* feature matrix, without an error and without an access outside the waveform.
C15_ShortWaveformEmpty ==
    (fnInput.op = "extractFeatures" /\ fnOutput.done
        /\ fnInput.frame_length > 0 /\ fnInput.frame_shift > 0
        /\ Len(fnInput.audio) < fnInput.frame_length) =>
        (fnOutput.status = "ok" /\ fnOutput.value = <<>>)

\* C16 (as claimed): every filter of the mel filterbank is zero at the FFT bins
\* outside [bin_i, bin_{i+2}] and is exactly 1 at bin_{i+1}, for every
\* nondecreasing sequence of boundary bins.
C16_MelTriangle ==
    (fnInput.op = "initializeMelFilterbank" /\ fnOutput.done) =>
        \A i \in 1..(Len(fnInput.bin_points) - 2) :
            /\ \A j \in 0..(fnInput.fft_size - 1) :
                 (j < fnInput.bin_points[i] \/ j > fnInput.bin_points[i + 2])
                    => fnOutput.value[i][j + 1].num = 0
            /\ fnOutput.value[i][fnInput.bin_points[i + 1] + 1].num
                 = fnOutput.value[i][fnInput.bin_points[i + 1] + 1].den

\* C17: applyLFR turns N >= 1 frames of dimension D into ceil(N / 6) frames of
\* dimension 7 * D, output k being the input frames 6k .. 6k + 6 end to end with
\* every index past N - 1 replaced by N - 1; 6 frames give one output whose seventh
\* block is frame 5, and no frame gives no output.
C17_LFR ==
    (fnInput.op = "applyLFR" /\ fnOutput.done) =>
        LET in == fnInput.features
            out == fnOutput.value
            N == Len(in)
            D == IF N = 0 THEN 0 ELSE Len(in[1])
        IN  /\ fnOutput.status = "ok"
            /\ Len(out) = (N + LfrN - 1) \div LfrN
            /\ \A k \in 0..(Len(out) - 1) :
                 /\ Len(out[k + 1]) = LfrM * D
                 /\ \A j \in 0..(LfrM - 1), d \in 1..D :
                      out[k + 1][j * D + d]
                        = in[(IF LfrN * k + j > N - 1 THEN N - 1 ELSE LfrN * k + j) + 1][d]
            /\ (N = 6 => Len(out) = 1 /\ SubSeq(out[1], 6 * D + 1, 7 * D) = in[6])
            /\ (N = 0 => out = <<>>)

\* C17 witness: six frames of dimension 2 were stacked into one frame of dimension
\* 14 that ends with the last input frame twice.
C17_Witness ==
    /\ fnInput.op = "applyLFR"
    /\ fnOutput.done
    /\ Len(fnInput.features) = 6
    /\ Len(fnOutput.value) = 1
    /\ Len(fnOutput.value[1]) = 14
    /\ SubSeq(fnOutput.value[1], 11, 14) = fnInput.features[6] \o fnInput.features[6]

\* C18 (as claimed): initialize() ends in an error for a configuration whose frame
\* length or frame shift is not positive, and extractFeatures runs only with both
\* positive.
C18_InvalidConfigRejected ==
    /\ (fnInput.op = "initialize" /\ fnOutput.done
          /\ (fnInput.frame_length <= 0 \/ fnInput.frame_shift <= 0))
         => fnOutput.status # "ok"
    /\ (fnInput.op = "extractFeatures" /\ fnOutput.done)
         => (fnInput.frame_length > 0 /\ fnInput.frame_shift > 0)

\* C19: for a waveform x of at least one sample, preprocess returns y with
\* y[0] = x[0] and y[i] = x[i] - 0.97 * x[i-1] (the x[i-1] of the input); a constant
\* input k gives k * (1 - 0.97) everywhere but at the first sample. Values are in
\* hundredths.
C19_Preemphasis ==
    (fnInput.op = "preprocess" /\ fnOutput.done /\ Len(fnInput.audio) >= 1) =>
        LET x == fnInput.audio
            y == fnOutput.value
        IN  /\ fnOutput.status = "ok"
            /\ Len(y) = Len(x)
            /\ y[1] = 100 * x[1]
            /\ \A i \in 2..Len(x) : y[i] = 100 * x[i] - Preemphasis * x[i - 1]
            /\ \A k \in {1, 2} :
                 (\A i \in 1..Len(x) : x[i] = k) =>
                    \A i \in 2..Len(x) : y[i] = k * (100 - Preemphasis)

\* C19 witness: a constant waveform of MaxWave samples of value 2 was filtered to
\* 0.06 at its last sample.
C19_Witness ==
    /\ fnInput.op = "preprocess"
    /\ fnOutput.done
    /\ fnInput.audio = [i \in 1..MaxWave |-> 2]
    /\ fnOutput.value[MaxWave] = 2 * (100 - Preemphasis)
    /\ fnOutput.value[1] = 200

\* A detectVAD call whose engine call returned.
InferenceSucceeded(out) == out.engine.ran /\ ~out.engine.failed

\* The detector is as one initialize() that returned true and a reset() leave it:
\* it holds a name for every input tensor, its output names are those of one
\* network, the probability first, no name was collected before a later push, and
\* its context has context_size samples.
WellInitialized ==
    /\ ~ContextOutside(Detector)
    /\ ~OutputOutside(output_names_)
    /\ ~StateOutside(output_names_)
    /\ ~HandsDangling
    /\ ~InputOutside(input_names_, InputNames(NetworkInputs))

\* C21: a neural VAD call whose engine call throws, or whose detector has no
\* session, returns probability 0 (the exception ends inside detectVAD); the
\* session goes on, and the call after a failed one invokes the engine on the
\* regular input (context followed by the latest window) and, when the engine
\* returns, yields the mean of the history as usual. A call ends in undefined
\* behaviour only on a detector that a failed or a repeated initialize() has left
\* with a session and without the input and output names of one network, or with
\* names that dangle; what is said of a call is said of the calls that return.
C21_EngineFailureReturnsZero ==
    [][/\ (pf.pos = "detect" /\ fault' # "none") =>
             (vad_session_ /\ ~WellInitialized)
       /\ SileroDone =>
             /\ (vadOut'.engine.failed \/ ~vad_session_) => vadOut'.prob = ZeroProb
             /\ vadOut.engine.failed =>
                  /\ vadOut'.invoked /\ vadOut'.engine.ran
                  /\ vadOut'.engine.tensors[1] = context_ \o vadOut'.input
                  /\ vadOut'.input = LastN(vadOut'.recent, VAD_WINDOW_SIZE)
                  /\ InferenceSucceeded(vadOut') =>
                       vadOut'.prob = Smoothed(prob_history_')]_vars

\* An engine call failed earlier in the session, and the latest call ran the
\* engine successfully and returned a probability above 0.
C21_Witness ==
    /\ vadOut.called
    /\ vadOut.afterFailure
    /\ InferenceSucceeded(vadOut)
    /\ vadOut.prob.num > 0

\* C22: on every successful inference the engine receives the concatenated input,
\* the hidden state, the cell state and the sample rate; afterwards the stored
\* hidden and cell states are the states the engine returned, and the context is
\* the trailing context_size samples of the concatenated input.
C22_StatePassedInAndOut ==
    [][(SileroDone /\ InferenceSucceeded(vadOut')) =>
         /\ vadOut'.engine.tensors =
              <<context_ \o vadOut'.input, state_h_, state_c_, <<VadSampleRate>>>>
         /\ Len(vadOut'.engine.outputs) = 3
         /\ state_h_' = vadOut'.engine.outputs[2]
         /\ state_c_' = vadOut'.engine.outputs[3]
         /\ context_' = LastN(context_ \o vadOut'.input, ContextSize)]_vars

\* The raw probabilities of the latest min(n, history_size) successful inferences
\* since the reset.
LatestRaws ==
    LET n == Len(vadOut.raws)
    IN  LastN(vadOut.raws, IF n < HistorySize THEN n ELSE HistorySize)

\* C23: the probability history holds at most history_size entries, the raw
\* probabilities of the latest min(n, history_size) successful inferences since
\* the reset in order, and a successful call returns the mean of those entries.
C23_HistoryBounded ==
    /\ [](Len(prob_history_) <= HistorySize /\ prob_history_ = LatestRaws)
    /\ [][Len(vadOut'.raws) > Len(vadOut.raws) =>
            vadOut'.prob = [num |-> Sum(LatestRaws'), den |-> Len(LatestRaws')]]_vars

\* More successful inferences than the history holds, with differing raw
\* probabilities, the oldest of them dropped.
C23_Witness ==
    /\ Len(vadOut.raws) > HistorySize
    /\ InferenceSucceeded(vadOut)
    /\ vadOut.raws[1] # vadOut.raws[Len(vadOut.raws)]
    /\ vadOut.prob.num > 0

\* C24: the hard cap counts from the Idle -> Recording transition at time t0, so
\* no callback with now - t0 <= max_record_time stops the session through the cap,
\* however long the session was Idle before: in particular not the callback of
\* the transition itself, at which now = t0.
C24_CapFromTrigger ==
    [][(hist.stopCause = "none" /\ hist'.stopCause = "max") => ~pf.triggered]_vars

\* A step of the audio callback that was handed no input.
NoInputStep == cbPc = "idle" /\ cbPc' = "ret"

\* C26: a callback that delivers no input after frames were accumulated forces the
\* session to Stopped, so that recordAudio leaves its wait and returns the buffer
\* accumulated so far.
C26_DeviceErrorStops ==
    [][(NoInputStep /\ speech_detected_ /\ audio_buffer_ # <<>>) =>
         (should_stop_' /\ audio_buffer_' = audio_buffer_)]_vars

\* C29: the accumulated buffer of a session is a contiguous slice of the frames
\* delivered in that session in delivery order: its first sample is of a frame of
\* the session, and each further sample continues the frame before it or begins
\* the next frame; no frame is present twice.
C29_ContiguousSlice ==
    LET size == FramesPerBuffer * Channels
        frames == Len(audio_buffer_) \div size
        first == audio_buffer_[1]
    IN  audio_buffer_ # <<>> =>
          /\ Len(audio_buffer_) = frames * size
          /\ first > hist.framesBefore
          /\ \A i \in 1..Len(audio_buffer_) :
                audio_buffer_[i] = first + (i - 1) \div size

\* C30: once a background session has completed on its own (no stop request) and
\* the control thread is idle, isRecording() is false, and a startRecording call
\* made then spawns a new recording thread.
C30_RestartAfterCompletion ==
    /\ [][(pc["rec"] # "done" /\ pc'["rec"] = "done" /\ pc["ctl"] = "idle") =>
            ~is_recording_']_vars
    /\ [][(StartRecording /\ pc["rec"] = "done") => spawned' = spawned + 1]_vars

\* C25: for a waveform of length L >= frame_length, framing returns frames of
\* exactly frame_length samples, frame i holding the samples from i * frame_shift
\* on, and covers the whole waveform: the samples after the last full frame form
\* one more frame, padded with zeros.
C25_FramingCovers ==
    (fnInput.op = "frameSignal" /\ fnOutput.done
       /\ Len(fnInput.signal) >= fnInput.frame_length) =>
      LET L == Len(fnInput.signal)
          fl == fnInput.frame_length
          fs == fnInput.frame_shift
          full == (L - fl) \div fs + 1
          frames == fnOutput.value
      IN  /\ fnOutput.status = "ok"
          /\ Len(frames) = full + (IF (L - fl) % fs > 0 THEN 1 ELSE 0)
          /\ \A i \in 1..Len(frames) :
                /\ Len(frames[i]) = fl
                /\ \A k \in 1..fl :
                      frames[i][k] = IF (i - 1) * fs + k <= L
                                     THEN fnInput.signal[(i - 1) * fs + k] ELSE 0

\* C27: after any number of callbacks, for every channel count, the pre-speech
\* ring holds at most 11 * frames_per_buffer samples, and they are the most
\* recently delivered samples in delivery order.
C27_RingBounded ==
    (fnInput.op = "preSpeechRing" /\ fnOutput.done) =>
      LET ring == fnOutput.value
          delivered == fnInput.callbacks * FramesPerBuffer * fnInput.channels
      IN  /\ Len(ring) <= (RingFrames + 1) * FramesPerBuffer
          /\ \A i \in 1..Len(ring) : ring[i] = delivered - Len(ring) + i

\* C28: with a driver that keeps delivering frames, every recordAudio call
\* returns, whatever the probabilities of the frames, also when none of them
\* exceeds the trigger threshold.
C28_SessionTerminates ==
    (pc["ctl"] = "ra_reset") ~> (pc["ctl"] = "ra_ret")

\* A session that has detected speech does end under that driver: the lasting
\* sessions of C28 are the ones that stay Idle.
RecordingTerminates ==
    (pc["ctl"] = "ra_wait" /\ speech_detected_) ~> (pc["ctl"] = "ra_ret")

====
